---- MODULE Spec2Model ----
(***************************************************************************)
(* Model of the embedding and semantic-ranking pipeline of Norate-AI:      *)
(*   src/src/lib/ai-service.ts               generateEmbedding,            *)
(*                                           cosineSimilarity,             *)
(*                                           semanticSearch,               *)
(*                                           extractTextFromTipTapContent  *)
(*   src/src/app/api/ai/embeddings/route.ts  POST (batch reprocessing,     *)
(*                                           single note)                  *)
(*   src/src/app/api/ai/summarize/route.ts   POST, GET (search route,       *)
(*                                           l.182-401)                    *)
(*   src/unnamed/part_011                    PUT (notes/[id] route)        *)
(*   src/src/lib/realtime-sync.ts            RealtimeSyncService           *)
(*                                                                         *)
(* The state machines share the module, each with its own specification:   *)
(*   SpecEmbed   repeated invocations of generateEmbedding                 *)
(*   SpecSearch  repeated POST and GET requests to the search route        *)
(*   Spec        one POST batchProcess request of the embeddings route     *)
(*   FairSpec    Spec with weak fairness on every step of the run          *)
(*   SpecRank    one ranking of candidates by semanticSearch               *)
(*   SpecCosine  one call of cosineSimilarity                              *)
(*   SpecExtract one call of extractTextFromTipTapContent                  *)
(*   SpecRerun   batch runs of one user, one after the other               *)
(*   SpecOwner   a batch run, single-note requests and searches of one     *)
(*               user, interleaved, on a table with another user's notes   *)
(*   SpecPut     one PUT request of the notes/[id] route                   *)
(*   SpecRealtime calls and channel events of the RealtimeSyncService      *)
(* Numbers are IEEE-754 doubles where their rounding matters.              *)
(* Text is a sequence of one-character strings.  The embedding provider and *)
(* the note store are external: their answers are chosen nondeterminis-    *)
(* tically from the small sets below.  (ai-service.ts:4-6 has the          *)
(* construction of the provider client commented out; the provider is      *)
(* modelled by what openai.embeddings.create may resolve or reject with.)  *)
(***************************************************************************)
EXTENDS Integers, Sequences, FiniteSets, Bags, TLC

VARIABLES
  \* ---- generateEmbedding invocation (SpecEmbed) ----
  gePc,        \* "idle" | "calling" (awaiting the provider) | "returned"
  geText,      \* the text argument
  geCalls,     \* provider calls issued by the current invocation
  geResult,    \* resolved value or thrown error of the invocation
  geLog,       \* history: <<cause, message>> of every invocation that threw
  \* ---- search route (SpecSearch) ----
  srPc,        \* "idle" | "fetching" | "embedding" | "responded"
  srMethod,    \* "POST" | "GET" ("none" while idle)
  srQuery, srThreshold, srLimit,
  srFetch,     \* outcome of the note-store query: "none" | "ok" | "error"
  srNotes,     \* rows returned by the note-store query
  srEmbedding, \* what generateEmbedding(query) resolved with or threw
  srSearch,    \* what semanticSearch resolved with or threw
  srResponse,  \* the JSON response
  \* ---- embeddings route, batch branch (Spec) ----
  bPc,         \* "Idle" | "Scanning" | "Processing" | "Waiting" | "Completed" | "Failed"
  store,       \* the Note table: id -> row
  notes,       \* rows returned by the scan, most recently updated first
  i,           \* loop variable: index (0-based) of the first note of the chunk
  task,        \* per scanned position: position of the async task of that note
  results,     \* { processed, errors, errorDetails }; errorDetails is kept
               \* as the bag of its entries (their order is not modelled)
  provOut,     \* per scanned position: what the provider answered ("none" before)
  storeOut,    \* per scanned position: what the store update answered
  bResponse,   \* the JSON response
  \* ---- one call of a pure function (SpecCosine, SpecRank, SpecExtract) ----
  fnPc,        \* "ready" | "done"
  fnIn,        \* the arguments
  fnOut,       \* the returned value or the thrown error
  \* ---- batch runs invoked one after the other (SpecRerun) ----
  bEarlier,    \* history: <<note id, outcome>> of every note of an earlier run
  \* ---- embeddings route, single-note branch (SpecOwner) ----
  embedNote,   \* the request under way: pc, noteId, note, embedding, response
  \* ---- PUT of the notes/[id] route (SpecPut) ----
  putNote,     \* the request under way: pc, body, embedding, response
  \* ---- RealtimeSyncService (SpecRealtime) ----
  rtPusher,    \* this.pusher: the connection (0 is null)
  rtChannel,   \* this.channel: the subscription it refers to
  rtUserId,    \* this.userId
  rtCurrentNoteId, \* this.currentNoteId
  rtCollaborators, \* the keys of this.collaborators
  rtHeartbeat, \* this.heartbeatInterval: a timer handle (0 is null)
  rtTimers,    \* the interval timers that are set and not cleared
  rtSubs,      \* the subscriptions <<connection, note>> that are live at Pusher
  rtCreated    \* connections and timers created so far

embedVars == <<gePc, geText, geCalls, geResult, geLog>>
searchVars == <<srPc, srMethod, srQuery, srThreshold, srLimit, srFetch, srNotes,
                srEmbedding, srSearch, srResponse>>
batchVars == <<bPc, store, notes, i, task, results, provOut, storeOut, bResponse>>
fnVars == <<fnPc, fnIn, fnOut>>
noteVars == <<bEarlier, embedNote, putNote>>
rtVars == <<rtPusher, rtChannel, rtUserId, rtCurrentNoteId, rtCollaborators,
            rtHeartbeat, rtTimers, rtSubs, rtCreated>>
vars == <<embedVars, searchVars, batchVars, fnVars, noteVars, rtVars>>

None == "none"

\* the value of a result, error or response that does not exist (yet)
Nothing == [nothing |-> TRUE]

\* no earlier batch run, no single-note request and no PUT under way
NoteRoutesIdle == bEarlier = {} /\ embedNote = Nothing /\ putNote = Nothing

\* the RealtimeSyncService as constructed (realtime-sync.ts:39-47): no
\* connection, no channel, no timer
RealtimeIdle ==
  /\ rtPusher = 0 /\ rtChannel = Nothing /\ rtUserId = None
  /\ rtCurrentNoteId = None /\ rtCollaborators = {} /\ rtHeartbeat = 0
  /\ rtTimers = {} /\ rtSubs = {} /\ rtCreated = [pushers |-> 0, timers |-> 0]

(***************************************************************************)
(* Bounds of the model.                                                    *)
(***************************************************************************)
\* longest text handed to generateEmbedding in SpecEmbed
MaxTextLen == 3
\* longest vector
MaxDim == 2
\* notes of the requesting user in the Note table of a batch run
MaxNotes == 6
\* notes of the requesting user in the Note table of a search
MaxCands == 2
\* most children of a node of a TipTap document
MaxKids == 2

(***************************************************************************)
(* Text: JavaScript strings as sequences of characters.                    *)
(***************************************************************************)
Chars == {" ", "a"}

IsSpace(c) == c = " "

RECURSIVE TrimStart(_)
TrimStart(s) ==
  IF s = <<>> THEN <<>>
  ELSE IF IsSpace(Head(s)) THEN TrimStart(Tail(s)) ELSE s

RECURSIVE TrimEnd(_)
TrimEnd(s) ==
  IF s = <<>> THEN <<>>
  ELSE IF IsSpace(s[Len(s)]) THEN TrimEnd(SubSeq(s, 1, Len(s) - 1)) ELSE s

\* String.prototype.trim
M_TrimStartOnly(s) == TrimStart(s)
Trim(s) == TrimEnd(TrimStart(s))

Min(a, b) == IF a < b THEN a ELSE b

\* String.prototype.substring(0, n)
Substring0(s, n) == SubSeq(s, 1, Min(Len(s), n))

\* n copies of the character c
Repeat(c, n) == [k \in 1..n |-> c]

TextsUpTo(n) == UNION {[1..k -> Chars] : k \in 0..n}

(***************************************************************************)
(* Error messages.  An Error is the record [ok |-> FALSE, message |-> m];  *)
(* String.prototype.includes on a message is the table below.              *)
(***************************************************************************)
MsgNoText == "No text provided for embedding generation"
MsgNoEmbedding == "No embedding returned from AI service"
MsgEmbedFailed == "Failed to generate embedding"
MsgDimensions == "Embedding dimensions must match"
MsgSearchFailed == "Failed to perform semantic search"
MsgApiKey == "Incorrect API key provided"
MsgTimeout == "Request timed out"

Includes(message, needle) ==
  \/ needle = "API key"    /\ message = MsgApiKey
  \/ needle = "dimensions" /\ message = MsgDimensions
  \/ needle = "too short"  /\ FALSE

Err(m) == [ok |-> FALSE, message |-> m]

(***************************************************************************)
(* The embedding provider (openai.embeddings.create): a black box that     *)
(* either rejects or resolves with { data: [{embedding}], usage }.         *)
(***************************************************************************)
Components == {-1, 0, 1}
VectorsOfDim(d) == [1..d -> Components]
Vectors == UNION {VectorsOfDim(d) : d \in 0..MaxDim}

ProviderFailures == {[kind |-> "throw", message |-> m] : m \in {MsgApiKey, MsgTimeout}}

\* data = <<>> is a response with an empty data array; usage = <<>> is a
\* response without a usage object.
ProviderAnswers(vecs) ==
  {[kind |-> "ok", data |-> d, usage |-> u] :
     d \in {<<>>} \cup {<<v>> : v \in vecs}, u \in {<<>>, <<0>>, <<7>>}}

ProviderResponses(vecs) == ProviderFailures \cup ProviderAnswers(vecs)

(***************************************************************************)
(* generateEmbedding, ai-service.ts:208-237, as three pure pieces:          *)
(* the check before the call, the handling of the provider's answer, and   *)
(* the catch-all handler that wraps whatever was thrown inside the try.     *)
(***************************************************************************)
\* l.212: !text || text.trim().length === 0
M_IsBlankTextNoTrim(text) == text = <<>>
IsBlankText(text) == text = <<>> \/ Len(Trim(text)) = 0

\* l.217
MaxEmbedChars == 8000
TruncatedText(text) == Substring0(text, MaxEmbedChars)

\* l.233-236: the catch block discards the caught error
CatchGenerateEmbedding(error) == Err(MsgEmbedFailed)

\* l.212-214
GenerateEmbeddingPre(text) == CatchGenerateEmbedding(Err(MsgNoText))

\* l.224-232 and the rejection of the awaited call.  !embedding is true of
\* undefined only: an empty array is truthy.
GenerateEmbeddingPost(resp) ==
  IF resp.kind = "throw" THEN CatchGenerateEmbedding(Err(resp.message))
  ELSE IF resp.data = <<>> THEN CatchGenerateEmbedding(Err(MsgNoEmbedding))
  ELSE [ok |-> TRUE, embedding |-> resp.data[1],
        tokens |-> IF resp.usage = <<>> THEN 0 ELSE resp.usage[1]]

(***************************************************************************)
(* SpecEmbed: invocations of generateEmbedding, one after the other.       *)
(***************************************************************************)
EmbedIdle ==
  /\ gePc = "idle" /\ geText = <<>> /\ geCalls = 0 /\ geResult = Nothing

\* generateEmbedding(text) up to its first await
GenerateEmbeddingCall(text) ==
  /\ gePc = "idle"
  /\ geText' = text
  /\ IF IsBlankText(text)
     THEN /\ geResult' = GenerateEmbeddingPre(text)
          /\ geLog' = geLog \cup {<<"empty", geResult'.message>>}
          /\ gePc' = "returned"
          /\ UNCHANGED geCalls
     ELSE /\ geCalls' = geCalls + 1
          /\ gePc' = "calling"
          /\ UNCHANGED <<geResult, geLog>>
  /\ UNCHANGED <<searchVars, batchVars, fnVars, noteVars, rtVars>>

\* the awaited provider call settles; whatever it settles with, the
\* invocation ends (l.224-236: no loop, no second call)
GenerateEmbeddingProviderReturn(resp) ==
  /\ gePc = "calling"
  /\ geResult' = GenerateEmbeddingPost(resp)
  /\ geLog' = IF geResult'.ok THEN geLog
              ELSE geLog \cup {<<"provider", geResult'.message>>}
  /\ gePc' = "returned"
  /\ UNCHANGED <<geText, geCalls>>
  /\ UNCHANGED <<searchVars, batchVars, fnVars, noteVars, rtVars>>

\* the caller is done with the result; the next invocation may start
GenerateEmbeddingReset ==
  /\ gePc = "returned"
  /\ gePc' = "idle" /\ geText' = <<>> /\ geCalls' = 0 /\ geResult' = Nothing
  /\ UNCHANGED geLog
  /\ UNCHANGED <<searchVars, batchVars, fnVars, noteVars, rtVars>>

(***************************************************************************)
(* JavaScript numbers: IEEE-754 binary64, round to nearest, ties to even.  *)
(* A natural number below 2^112 is the tuple of its eight limbs in base    *)
(* 2^14, least significant first.  A double is [s, m, e] and stands for    *)
(* s * m * 2^e, where s is -1, 0 or 1 and 2^52 <= m < 2^53 unless s = 0.   *)
(* (The values of the model are far from overflow and underflow.)          *)
(***************************************************************************)
LimbBase == 16384

\* 2^k for k < 14
Pow2(k) == <<1, 2, 4, 8, 16, 32, 64, 128, 256, 512, 1024, 2048, 4096, 8192>>[k + 1]

NatZero == <<0, 0, 0, 0, 0, 0, 0, 0>>

NatOne == <<1, 0, 0, 0, 0, 0, 0, 0>>

\* a natural number below 2^31
NatFromInt(n) ==
  <<n % LimbBase, (n \div LimbBase) % LimbBase, (n \div LimbBase) \div LimbBase,
    0, 0, 0, 0, 0>>

\* the carry into limb k of a + b
Carry(a, b, k) ==
  \E j \in 1..(k - 1) :
    /\ a[j] + b[j] >= LimbBase
    /\ \A h \in (j + 1)..(k - 1) : a[h] + b[h] = LimbBase - 1

SumLimb(a, b, k) == (a[k] + b[k] + (IF Carry(a, b, k) THEN 1 ELSE 0)) % LimbBase

NatAdd(a, b) ==
  <<SumLimb(a, b, 1), SumLimb(a, b, 2), SumLimb(a, b, 3), SumLimb(a, b, 4),
    SumLimb(a, b, 5), SumLimb(a, b, 6), SumLimb(a, b, 7), SumLimb(a, b, 8)>>

Limb(a, k) == IF k \in 1..8 THEN a[k] ELSE 0

\* a * LimbBase^n
NatShiftLimbs(a, n) ==
  <<Limb(a, 1 - n), Limb(a, 2 - n), Limb(a, 3 - n), Limb(a, 4 - n),
    Limb(a, 5 - n), Limb(a, 6 - n), Limb(a, 7 - n), Limb(a, 8 - n)>>

\* a * d for one limb d: the low halves of the products plus their high
\* halves one limb up
NatMulLimb(a, d) ==
  NatAdd(<<(a[1] * d) % LimbBase, (a[2] * d) % LimbBase, (a[3] * d) % LimbBase,
           (a[4] * d) % LimbBase, (a[5] * d) % LimbBase, (a[6] * d) % LimbBase,
           (a[7] * d) % LimbBase, (a[8] * d) % LimbBase>>,
         <<0, (a[1] * d) \div LimbBase, (a[2] * d) \div LimbBase,
           (a[3] * d) \div LimbBase, (a[4] * d) \div LimbBase,
           (a[5] * d) \div LimbBase, (a[6] * d) \div LimbBase,
           (a[7] * d) \div LimbBase>>)

\* a * b for a, b < 2^56
NatMul(a, b) ==
  NatAdd(NatAdd(NatMulLimb(a, b[1]), NatShiftLimbs(NatMulLimb(a, b[2]), 1)),
         NatAdd(NatShiftLimbs(NatMulLimb(a, b[3]), 2),
                NatShiftLimbs(NatMulLimb(a, b[4]), 3)))

\* -1, 0, 1 as a < b, a = b, a > b
NatCmp(a, b) ==
  IF a = b THEN 0
  ELSE LET top == CHOOSE k \in 1..8 :
                    a[k] # b[k] /\ \A h \in (k + 1)..8 : a[h] = b[h]
       IN IF a[top] < b[top] THEN -1 ELSE 1

\* a * 2^k
NatShift(a, k) == NatShiftLimbs(NatMulLimb(a, Pow2(k % 14)), k \div 14)

\* 2^k
NatPow2(k) == NatShift(NatOne, k)

\* the element of a one-element set; The({e(x) : x \in {v}}) is e(v) with v
\* evaluated once and before e
The(S) == CHOOSE r \in S : TRUE

\* q * b <= a, or q * q <= a for a root
Fits(q, a, b, root) == NatCmp(NatMul(q, IF root THEN q ELSE b), a) <= 0

\* the largest q with Fits(q, a, b, root) among acc + (a sum of 2^hi, ...,
\* 2^lo), the bits decided from hi down to lo
RECURSIVE NatLargest(_, _, _, _, _, _)
NatLargest(a, b, root, acc, hi, lo) ==
  IF hi = lo
  THEN The({IF Fits(q, a, b, root) THEN q ELSE acc : q \in {NatAdd(acc, NatPow2(hi))}})
  ELSE The({NatLargest(a, b, root, upper, ((hi + lo + 1) \div 2) - 1, lo) :
              upper \in {NatLargest(a, b, root, acc, hi, (hi + lo + 1) \div 2)}})

\* floor(a / b), which is below 2^54, for b < 2^56
NatDiv(a, b) == NatLargest(a, b, FALSE, NatZero, 53, 0)

\* floor(sqrt(a)), which is below 2^54
NatSqrt(a) == NatLargest(a, a, TRUE, NatZero, 53, 0)

NatIsOdd(a) == a[1] % 2 = 1

NatSucc(a) == NatAdd(a, NatOne)

\* the number of bits of n, 0 < n < 2^13
BitLength(n) == CHOOSE k \in 1..13 : Pow2(k - 1) <= n /\ n < Pow2(k)

FZero == [s |-> 0, m |-> NatZero, e |-> 0]

\* the double s * m * 2^e for 2^52 <= m <= 2^53
FNormal(s, m, e) ==
  IF NatCmp(m, NatPow2(53)) = 0 THEN [s |-> s, m |-> NatPow2(52), e |-> e + 1]
  ELSE [s |-> s, m |-> m, e |-> e]

\* q + r rounded to an integer, ties to even; cmp is the sign of r - 1/2
RoundNearestEven(q, cmp) ==
  IF cmp > 0 \/ (cmp = 0 /\ NatIsOdd(q)) THEN NatSucc(q) ELSE q

\* the double of an integer of absolute value below 2^13 (exact)
FFromInt(n) ==
  IF n = 0 THEN FZero
  ELSE LET abs == IF n < 0 THEN 0 - n ELSE n
           k == 53 - BitLength(abs)
       IN [s |-> IF n < 0 THEN -1 ELSE 1, m |-> NatShift(NatFromInt(abs), k), e |-> 0 - k]

\* the quotient p / d rounded to an integer, for p / d < 2^54; q is floor(p / d)
RoundedQuotient(p, d, q) ==
  RoundNearestEven(q, NatCmp(NatShift(p, 1), NatAdd(NatShift(NatMul(q, d), 1), d)))

\* x * y for doubles x, y that are not 0
FMulNormal(x, y) ==
  LET p == NatMul(x.m, y.m)
      k == IF NatCmp(p, NatPow2(105)) >= 0 THEN 53 ELSE 52
  IN The({The({FNormal(x.s * y.s, RoundedQuotient(pd[1], pd[2], q), x.e + y.e + k) :
                  q \in {NatDiv(pd[1], pd[2])}}) :
            pd \in {<<p, NatPow2(k)>>}})

\* x * y
FMul(x, y) == IF x.s = 0 \/ y.s = 0 THEN FZero ELSE FMulNormal(x, y)

\* x / y for doubles x, y that are not 0
FDivNormal(x, y) ==
  LET k == IF NatCmp(x.m, y.m) >= 0 THEN 52 ELSE 53
  IN The({The({FNormal(x.s * y.s, RoundedQuotient(p, y.m, q), x.e - y.e - k) :
                  q \in {NatDiv(p, y.m)}}) :
            p \in {NatShift(x.m, k)}})

\* x / y for y # 0
FDiv(x, y) == IF x.s = 0 THEN FZero ELSE FDivNormal(x, y)

\* Math.sqrt(x) for a double x > 0: floor(sqrt(n)) is rounded up when
\* sqrt(n) is above its half, n > q^2 + q
FSqrtNormal(x) ==
  LET odd == x.e % 2 # 0
      e2 == IF odd THEN x.e - 1 ELSE x.e
  IN The({The({FNormal(1,
                       IF NatCmp(n, NatAdd(NatMul(q, q), q)) > 0 THEN NatSucc(q) ELSE q,
                       (e2 \div 2) - 26) :
                  q \in {NatSqrt(n)}}) :
            n \in {NatShift(IF odd THEN NatShift(x.m, 1) ELSE x.m, 52)}})

\* Math.sqrt(x) for x >= 0
FSqrt(x) == IF x.s = 0 THEN FZero ELSE FSqrtNormal(x)

FCmpAbs(x, y) ==
  IF x.e < y.e THEN -1 ELSE IF x.e > y.e THEN 1 ELSE NatCmp(x.m, y.m)

\* -1, 0, 1 as x < y, x === y, x > y
FCmp(x, y) ==
  IF x.s # y.s THEN (IF x.s < y.s THEN -1 ELSE 1)
  ELSE IF x.s = 0 THEN 0
  ELSE x.s * FCmpAbs(x, y)

(***************************************************************************)
(* cosineSimilarity, ai-service.ts:240-263.  The components of the vectors *)
(* of the model are -1, 0 and 1, so dotProduct and the sums of squares are *)
(* integers of absolute value at most MaxDim, which the loop of l.249-253  *)
(* accumulates exactly.  The square roots, their product and the quotient  *)
(* are rounded; they are tabulated once for these integers.                *)
(***************************************************************************)
RECURSIVE Dot(_, _)
Dot(a, b) == IF a = <<>> THEN 0 ELSE Head(a) * Head(b) + Dot(Tail(a), Tail(b))

\* dotProduct / (normA * normB) without l.256-257
M_QuotientOfSums(dotProduct, normA, normB) ==
  FDiv(FFromInt(dotProduct), FMul(FFromInt(normA), FFromInt(normB)))

\* l.262 after l.256-257: dotProduct / (Math.sqrt(normA) * Math.sqrt(normB))
Quotient(dotProduct, normA, normB) ==
  The({The({FDiv(FFromInt(dotProduct), product) :
              product \in {FMul(norms[1], norms[2])}}) :
         norms \in {<<FSqrt(FFromInt(normA)), FSqrt(FFromInt(normB))>>}})

\* Quotient(dotProduct, normA, normB) for -MaxDim <= dotProduct <= MaxDim and
\* 1 <= normA, normB <= MaxDim, under the key
\* QuotientIndex(dotProduct, normA, normB)
QuotientIndex(dotProduct, normA, normB) ==
  ((dotProduct + MaxDim) * MaxDim + (normA - 1)) * MaxDim + normB

QuotientTable ==
  {<<j, Quotient(((j - 1) \div (MaxDim * MaxDim)) - MaxDim,
                 (((j - 1) \div MaxDim) % MaxDim) + 1,
                 ((j - 1) % MaxDim) + 1)>> :
     j \in 1..((2 * MaxDim + 1) * MaxDim * MaxDim)}

\* the entry of the table under the key j
Lookup(table, j) == (CHOOSE p \in table : p[1] = j)[2]

\* the first n components of v
M_Prefix(v, n) == SubSeq(v, 1, IF n < Len(v) THEN n ELSE Len(v))

\* the result of 0 / 0
M_NaN == [s |-> 0, m |-> NatOne, e |-> 1024]

M_CosineSimilarityUnchecked(a, b) ==
  IF Dot(a, a) = 0 \/ Dot(b, b) = 0 THEN [ok |-> TRUE, value |-> FZero]
  ELSE [ok |-> TRUE,
        value |-> Lookup(QuotientTable,
                         QuotientIndex(Dot(M_Prefix(a, Len(b)), M_Prefix(b, Len(a))),
                                       Dot(a, a), Dot(b, b)))]

M_CosineSimilarityZeroNormA(a, b) ==
  IF Len(a) # Len(b) THEN Err(MsgDimensions)
  ELSE IF Dot(a, a) = 0 THEN [ok |-> TRUE, value |-> FZero]
  ELSE IF Dot(b, b) = 0 THEN [ok |-> TRUE, value |-> M_NaN]
  ELSE [ok |-> TRUE,
        value |-> Lookup(QuotientTable,
                         QuotientIndex(Dot(a, b), Dot(a, a), Dot(b, b)))]

M_CosineSimilarityNormA(a, b) ==
  IF Len(a) # Len(b) THEN Err(MsgDimensions)
  ELSE IF Dot(a, a) = 0 \/ Dot(b, b) = 0 THEN [ok |-> TRUE, value |-> FZero]
  ELSE [ok |-> TRUE,
        value |-> Lookup(QuotientTable,
                         QuotientIndex(Dot(a, b), Dot(a, a), Dot(a, a)))]

CosineSimilarity(a, b) ==
  IF Len(a) # Len(b) THEN Err(MsgDimensions)
  ELSE IF Dot(a, a) = 0 \/ Dot(b, b) = 0 THEN [ok |-> TRUE, value |-> FZero]
  ELSE [ok |-> TRUE,
        value |-> Lookup(QuotientTable,
                         QuotientIndex(Dot(a, b), Dot(a, a), Dot(b, b)))]

\* x >= y
M_SimGEStrict(x, y) == FCmp(x, y) > 0
SimGE(x, y) == FCmp(x, y) >= 0

\* the thresholds of the model are given in tenths: the number literal t / 10
TenthsTable == {<<t, FDiv(FFromInt(t), FFromInt(10))>> : t \in (0 - 10)..10}

Tenths(t) == Lookup(TenthsTable, t)

(***************************************************************************)
(* semanticSearch, ai-service.ts:266-296.                                  *)
(***************************************************************************)
\* l.292-295: the catch block discards the caught error
CatchSemanticSearch(error) == Err(MsgSearchFailed)

\* Array.prototype.sort((a, b) => b.similarity - a.similarity): stable,
\* descending.  x goes behind every entry that is >= x.
M_InsertAtEnd(sorted, x) == sorted \o <<x>>
RECURSIVE InsertDescending(_, _)
InsertDescending(sorted, x) ==
  IF sorted = <<>> THEN <<x>>
  ELSE IF SimGE(Head(sorted).similarity, x.similarity)
       THEN <<Head(sorted)>> \o InsertDescending(Tail(sorted), x)
       ELSE <<x>> \o sorted

RECURSIVE SortDescending(_)
SortDescending(list) ==
  IF list = <<>> THEN <<>>
  ELSE InsertDescending(SortDescending(SubSeq(list, 1, Len(list) - 1)), list[Len(list)])

\* l.282-291, after the query embedding is there
RankNotes(queryEmbedding, noteEmbeddings, threshold) ==
  LET sims == [k \in 1..Len(noteEmbeddings) |->
                 CosineSimilarity(queryEmbedding, noteEmbeddings[k].embedding)]
  IN IF \E k \in 1..Len(noteEmbeddings) : ~sims[k].ok
     THEN LET first == CHOOSE k \in 1..Len(noteEmbeddings) :
                         /\ ~sims[k].ok
                         /\ \A j \in 1..(k - 1) : sims[j].ok
          IN CatchSemanticSearch(sims[first])
     ELSE LET mapped == [k \in 1..Len(noteEmbeddings) |->
                           [id |-> noteEmbeddings[k].id,
                            title |-> noteEmbeddings[k].title,
                            similarity |-> sims[k].value]]
              filtered == SelectSeq(mapped,
                            LAMBDA r : SimGE(r.similarity, Tenths(threshold)))
          IN [ok |-> TRUE, results |-> SortDescending(filtered)]

\* l.278-279 and l.292-295: the outcome of semanticSearch given the settled
\* generateEmbedding(query)
SemanticSearchResult(embeddingResult, noteEmbeddings, threshold) ==
  IF ~embeddingResult.ok THEN CatchSemanticSearch(embeddingResult)
  ELSE RankNotes(embeddingResult.embedding, noteEmbeddings, threshold)

(***************************************************************************)
(* The Note table (supabase.from('Note')).  A row carries what the routes  *)
(* select: userId, title, content, embedding (hasEmbedding = FALSE is a     *)
(* null column) and updatedAt.  Notes are numbered; updatedAt is the id.   *)
(***************************************************************************)
Me == "u1"    \* the user the access token belongs to
Other == "u2"

Row(userId, title, content, hasEmbedding, embedding, updatedAt) ==
  [userId |-> userId, title |-> title, content |-> content,
   hasEmbedding |-> hasEmbedding, embedding |-> embedding, updatedAt |-> updatedAt]

\* .eq('userId', user).is/not('embedding', null).order('updatedAt', desc):
\* the ids of the selected rows among 1..n, most recently updated first
RECURSIVE SelectIds(_, _, _, _)
SelectIds(table, n, user, withEmbedding) ==
  IF n = 0 THEN <<>>
  ELSE (IF table[n].userId = user /\ table[n].hasEmbedding = withEmbedding
        THEN <<n>> ELSE <<>>)
       \o SelectIds(table, n - 1, user, withEmbedding)

M_SelectRowsAnyEmbedding(table, user, withEmbedding) ==
  LET ids == SelectIds(table, Cardinality(DOMAIN table), user, TRUE)
               \o SelectIds(table, Cardinality(DOMAIN table), user, FALSE)
  IN [k \in 1..Len(ids) |->
        [id |-> ids[k], title |-> table[ids[k]].title,
         content |-> table[ids[k]].content, embedding |-> table[ids[k]].embedding]]

M_SelectRowsAnyOwner(table, user, withEmbedding) ==
  LET ids == SelectIds(table, Cardinality(DOMAIN table), Other, withEmbedding)
               \o SelectIds(table, Cardinality(DOMAIN table), Me, withEmbedding)
  IN [k \in 1..Len(ids) |->
        [id |-> ids[k], title |-> table[ids[k]].title,
         content |-> table[ids[k]].content, embedding |-> table[ids[k]].embedding]]
SelectRows(table, user, withEmbedding) ==
  LET ids == SelectIds(table, Cardinality(DOMAIN table), user, withEmbedding)
  IN [k \in 1..Len(ids) |->
        [id |-> ids[k], title |-> table[ids[k]].title,
         content |-> table[ids[k]].content, embedding |-> table[ids[k]].embedding]]

(***************************************************************************)
(* The search route, summarize/route.ts: POST l.182-298 and GET l.300-401. *)
(* The two handlers differ in the validation of the query, in one message  *)
(* and in the catch block; the line numbers below are those of POST, the   *)
(* ones of GET are given where the handlers differ.                        *)
(***************************************************************************)
SearchIdle ==
  /\ srPc = "idle" /\ srMethod = None
  /\ srQuery = <<>> /\ srThreshold = 0 /\ srLimit = 0
  /\ srFetch = None /\ srNotes = <<>> /\ srEmbedding = Nothing
  /\ srSearch = Nothing /\ srResponse = Nothing

ErrorResponse(status, error) == [status |-> status, error |-> error]

\* l.226-236: rows whose embedding is a non-empty array
ValidEmbeddings(rows) == SelectSeq(rows, LAMBDA r : Len(r.embedding) > 0)

\* Array.prototype.slice(0, n)
Slice0(list, n) ==
  IF n >= 0 THEN SubSeq(list, 1, Min(n, Len(list)))
  ELSE SubSeq(list, 1, IF Len(list) + n > 0 THEN Len(list) + n ELSE 0)

\* l.217-223 and l.238-244: the response when there is nothing to search
EmptySearchResponse(query, message) ==
  [status |-> 200, results |-> <<>>, query |-> query, message |-> message]

\* l.249-272
SearchResponse(searchResults, noteEmbeddings, query, threshold, limit) ==
  LET limited == Slice0(searchResults, limit)
  IN [status |-> 200,
      results |-> [k \in 1..Len(limited) |->
                     [id |-> limited[k].id, title |-> limited[k].title,
                      similarity |-> limited[k].similarity]],
      query |-> query, threshold |-> threshold,
      totalFound |-> Len(searchResults),
      totalNotes |-> Len(noteEmbeddings),
      message |-> <<"Found", Len(limited), "relevant notes">>]

\* l.274-297: the catch block of POST; l.394-400: the one of GET
SearchRouteCatch(method, error) ==
  IF method = "GET"
  THEN ErrorResponse(500, "Failed to perform semantic search. Please try again.")
  ELSE IF Includes(error.message, "API key")
  THEN ErrorResponse(503, "AI service temporarily unavailable")
  ELSE IF Includes(error.message, "dimensions")
  THEN ErrorResponse(400, "Embedding format mismatch. Please regenerate embeddings.")
  ELSE ErrorResponse(500, "Failed to perform semantic search. Please try again.")

\* l.247-272 and l.274-297, with what semanticSearch resolved with or threw
SearchOutcome(method, searchResults, rows, query, threshold, limit) ==
  IF searchResults.ok
  THEN SearchResponse(searchResults.results, ValidEmbeddings(rows), query,
                      threshold, limit)
  ELSE SearchRouteCatch(method, searchResults)

\* l.197-202 (POST): !query || query.trim().length === 0;
\* l.320-322 (GET): !query
QueryMissing(method, query) ==
  IF method = "GET" THEN query = <<>>
  ELSE query = <<>> \/ Len(Trim(query)) = 0

QueryMissingResponse(method) ==
  IF method = "GET" THEN ErrorResponse(400, "Query parameter \"q\" is required")
  ELSE ErrorResponse(400, "Query is required")

\* l.217-223 (POST), l.337-343 (GET)
NoNotesMessage(method) ==
  IF method = "GET" THEN "No notes found with embeddings."
  ELSE "No notes found with embeddings. Please ensure your notes are processed for semantic search."

\* l.183-210 (POST), l.301-322 (GET): the request arrives; authentication
\* and validation
SearchRequest(method, auth, query, threshold, limit) ==
  /\ srPc = "idle"
  /\ srMethod' = method
  /\ srQuery' = query /\ srThreshold' = threshold /\ srLimit' = limit
  /\ IF auth = "none"
     THEN srPc' = "responded" /\ srResponse' = ErrorResponse(401, "Unauthorized")
     ELSE IF auth = "invalid"
     THEN srPc' = "responded" /\ srResponse' = ErrorResponse(401, "Invalid token")
     ELSE IF QueryMissing(method, query)
     THEN srPc' = "responded" /\ srResponse' = QueryMissingResponse(method)
     ELSE srPc' = "fetching" /\ UNCHANGED srResponse
  /\ UNCHANGED <<srFetch, srNotes, srEmbedding, srSearch>>
  /\ UNCHANGED <<embedVars, batchVars, fnVars, noteVars, rtVars>>

\* l.205-247: the note-store query settles; semanticSearch starts and runs
\* generateEmbedding(query) up to the provider call
SearchFetchReturn(dbOk) ==
  /\ srPc = "fetching"
  /\ IF ~dbOk
     THEN /\ srPc' = "responded"
          /\ srFetch' = "error"
          /\ srResponse' = ErrorResponse(500, "Failed to fetch notes")
          /\ UNCHANGED <<srNotes, srEmbedding, srSearch>>
     ELSE LET rows == SelectRows(store, Me, TRUE)
          IN /\ srFetch' = "ok"
             /\ srNotes' = rows
             /\ IF rows = <<>>
                THEN /\ srPc' = "responded"
                     /\ srResponse' = EmptySearchResponse(srQuery, NoNotesMessage(srMethod))
                     /\ UNCHANGED <<srEmbedding, srSearch>>
                ELSE IF ValidEmbeddings(rows) = <<>>
                THEN /\ srPc' = "responded"
                     /\ srResponse' = EmptySearchResponse(srQuery,
                          "No notes have valid embeddings for semantic search.")
                     /\ UNCHANGED <<srEmbedding, srSearch>>
                ELSE IF IsBlankText(srQuery)
                THEN /\ srPc' = "responded"
                     /\ srEmbedding' = GenerateEmbeddingPre(srQuery)
                     /\ srSearch' = SemanticSearchResult(srEmbedding',
                                       ValidEmbeddings(rows), srThreshold)
                     /\ srResponse' = SearchOutcome(srMethod, srSearch', rows, srQuery,
                                                     srThreshold, srLimit)
                ELSE /\ srPc' = "embedding"
                     /\ UNCHANGED <<srEmbedding, srSearch, srResponse>>
  /\ UNCHANGED <<srMethod, srQuery, srThreshold, srLimit>>
  /\ UNCHANGED <<embedVars, batchVars, fnVars, noteVars, rtVars>>

\* the provider call of generateEmbedding(query) settles; the rest of
\* semanticSearch and of the route runs to the response
SearchProviderReturn(resp) ==
  /\ srPc = "embedding"
  /\ srEmbedding' = GenerateEmbeddingPost(resp)
  /\ srSearch' = SemanticSearchResult(srEmbedding', ValidEmbeddings(srNotes),
                                      srThreshold)
  /\ srResponse' = SearchOutcome(srMethod, srSearch', srNotes, srQuery, srThreshold,
                                 srLimit)
  /\ srPc' = "responded"
  /\ UNCHANGED <<srMethod, srQuery, srThreshold, srLimit, srFetch, srNotes>>
  /\ UNCHANGED <<embedVars, batchVars, fnVars, noteVars, rtVars>>

\* the response is sent; the next request may arrive
SearchReset ==
  /\ srPc = "responded"
  /\ srPc' = "idle" /\ srMethod' = None
  /\ srQuery' = <<>> /\ srThreshold' = 0 /\ srLimit' = 0
  /\ srFetch' = None /\ srNotes' = <<>> /\ srEmbedding' = Nothing
  /\ srSearch' = Nothing /\ srResponse' = Nothing
  /\ UNCHANGED <<embedVars, batchVars, fnVars, noteVars, rtVars>>

(***************************************************************************)
(* POST of the embeddings route, batch branch, embeddings/route.ts:11-108. *)
(* task[k] is the position of the async callback of the k-th scanned note: *)
(*   "new"       not started (its chunk has not begun)                     *)
(*   "provider"  awaiting generateEmbedding (the provider call is out)     *)
(*   "store"     awaiting the Note update                                  *)
(*   "delay"     awaiting the 100 ms timer                                 *)
(*   "done"      the callback has returned                                 *)
(***************************************************************************)
\* l.58
BatchSize == 5
\* l.67
MinContentLength == 10

\* extractTextFromTipTapContent on content that is absent or a string
\* (ai-service.ts:28, 31, 57)
ExtractText(content) == Trim(content)

\* l.64-65: `${note.title || ''} ${text}`.trim()
FullText(note) == Trim(note.title \o <<" ">> \o ExtractText(note.content))

\* l.67
M_TooShortOffByOne(fullText) == Len(fullText) < MinContentLength - 1
TooShort(fullText) == Len(fullText) < MinContentLength

NoResults == [processed |-> 0, errors |-> 0, errorDetails |-> EmptyBag]

M_RecordErrorNoDetail(res, id, detail) == [res EXCEPT !.errors = @ + 1]
\* results.errors++; results.errorDetails.push(`Note ${id}: ${detail}`)
RecordError(res, id, detail) ==
  [res EXCEPT !.errors = @ + 1,
              !.errorDetails = @ (+) SetToBag({<<"Note", id, detail>>})]

\* results.processed++
RecordProcessed(res) == [res EXCEPT !.processed = @ + 1]

\* l.60: notes.slice(i, i + batchSize) holds the positions start+1..ChunkLast
M_ChunkLastOffByOne(start, n) == Min(start + BatchSize + 1, n)
ChunkLast(start, n) == Min(start + BatchSize, n)

ChunkOf(start, n) == (start + 1)..ChunkLast(start, n)

\* l.62: await Promise.all(batch.map(...)) resolves when every callback of
\* the chunk has returned
M_ChunkDoneWholeRun(t, start) == \A k \in 1..Len(t) : t[k] = "done"
M_ChunkDoneAny(t, start) == \E k \in ChunkOf(start, Len(t)) : t[k] = "done"
ChunkDone(t, start) == \A k \in ChunkOf(start, Len(t)) : t[k] = "done"

\* l.59 and l.97: is there another chunk after the one that starts at start?
M_HasNextChunkNever(start, n) == FALSE
HasNextChunk(start, n) == start + BatchSize < n

\* l.59: i += batchSize
NextChunkStart(start) == start + BatchSize

\* l.102-107
BatchResponse(res) ==
  [status |-> 200, message |-> <<"Batch processing completed", res.processed, res.errors>>,
   processed |-> res.processed, errors |-> res.errors,
   errorDetails |-> res.errorDetails]

\* l.62-71 for the notes k..last of a chunk, in order: every callback runs
\* synchronously up to its first await
RECURSIVE StartTasks(_, _, _, _, _)
StartTasks(rows, k, last, t, res) ==
  IF k > last THEN [task |-> t, results |-> res]
  ELSE IF TooShort(FullText(rows[k]))
       THEN StartTasks(rows, k + 1, last, [t EXCEPT ![k] = "done"],
                       RecordError(res, rows[k].id, "Content too short"))
       ELSE StartTasks(rows, k + 1, last, [t EXCEPT ![k] = "provider"], res)

BatchIdle ==
  /\ bPc = "Idle" /\ notes = <<>> /\ i = 0 /\ task = <<>>
  /\ results = NoResults /\ provOut = <<>> /\ storeOut = <<>>
  /\ bResponse = Nothing

\* Promise.all of the chunk that starts at start: when every callback has
\* returned, the loop goes on (l.96-107)
Join(start, t, res) ==
  /\ task' = t
  /\ results' = res
  /\ IF ~ChunkDone(t, start)
     THEN bPc' = "Processing" /\ UNCHANGED bResponse
     ELSE IF HasNextChunk(start, Len(notes'))
     THEN bPc' = "Waiting" /\ UNCHANGED bResponse
     ELSE bPc' = "Completed" /\ bResponse' = BatchResponse(res)

\* l.13-28: the request arrives
BatchRequest(auth) ==
  /\ bPc = "Idle"
  /\ IF auth = "none"
     THEN bPc' = "Failed" /\ bResponse' = ErrorResponse(401, "Unauthorized")
     ELSE IF auth = "invalid"
     THEN bPc' = "Failed" /\ bResponse' = ErrorResponse(401, "Invalid token")
     ELSE bPc' = "Scanning" /\ UNCHANGED bResponse
  /\ UNCHANGED <<store, notes, i, task, results, provOut, storeOut>>
  /\ UNCHANGED <<embedVars, searchVars, fnVars, noteVars, rtVars>>

\* l.31-62: the scan settles; the first chunk starts
BatchScanReturn(dbOk) ==
  /\ bPc = "Scanning"
  /\ IF ~dbOk
     THEN /\ bPc' = "Failed"
          /\ bResponse' = ErrorResponse(500, "Failed to fetch notes")
          /\ UNCHANGED <<notes, i, task, results, provOut, storeOut>>
     ELSE LET rows == SelectRows(store, Me, FALSE)
          IN IF rows = <<>>
             THEN /\ bPc' = "Completed"
                  /\ bResponse' = [status |-> 200,
                                    message |-> <<"All notes already have embeddings">>,
                                    processed |-> 0, errors |-> 0]
                  /\ UNCHANGED <<notes, i, task, results, provOut, storeOut>>
             ELSE /\ notes' = rows
                  /\ i' = 0
                  /\ provOut' = [k \in 1..Len(rows) |-> Nothing]
                  /\ storeOut' = [k \in 1..Len(rows) |-> None]
                  /\ LET started == StartTasks(rows, 1, ChunkLast(0, Len(rows)),
                                               [k \in 1..Len(rows) |-> "new"], NoResults)
                     IN Join(0, started.task, started.results)
  /\ UNCHANGED store
  /\ UNCHANGED <<embedVars, searchVars, fnVars, noteVars, rtVars>>

\* l.73 and l.90-93: generateEmbedding of the k-th note settles.  On success
\* the Note update is issued (l.75-79); on failure the callback's catch
\* block records the error and the callback returns.
TaskProviderReturn(k, resp) ==
  /\ bPc = "Processing"
  /\ k \in DOMAIN task /\ task[k] = "provider"
  /\ UNCHANGED <<store, notes, i, storeOut>>
  /\ LET embeddingResult == GenerateEmbeddingPost(resp)
     IN IF embeddingResult.ok
        THEN /\ provOut' = [provOut EXCEPT ![k] =
                               [ok |-> TRUE, embedding |-> embeddingResult.embedding]]
             /\ Join(i, [task EXCEPT ![k] = "store"], results)
        ELSE /\ provOut' = [provOut EXCEPT ![k] = embeddingResult]
             /\ Join(i, [task EXCEPT ![k] = "done"],
                     RecordError(results, notes[k].id, embeddingResult.message))
  /\ UNCHANGED <<embedVars, searchVars, fnVars, noteVars, rtVars>>

M_UpdateEmbeddingOnly(table, id, user, embedding) ==
  [n \in DOMAIN table |->
     IF table[n].userId # user THEN table[n]
     ELSE IF n = id THEN [table[n] EXCEPT !.hasEmbedding = TRUE, !.embedding = embedding]
     ELSE [table[n] EXCEPT !.hasEmbedding = FALSE, !.embedding = <<>>]]
\* .update({embedding}).eq('id', id).eq('userId', user): the row is written
\* as a whole, if it is the user's
UpdateEmbedding(table, id, user, embedding) ==
  IF id \in DOMAIN table /\ table[id].userId = user
  THEN [table EXCEPT ![id].hasEmbedding = TRUE, ![id].embedding = embedding]
  ELSE table

\* l.75-89: the Note update of the k-th note settles, with or without
\* updateError; then the callback sleeps 100 ms
TaskStoreReturn(k, updateOk) ==
  /\ bPc = "Processing"
  /\ k \in DOMAIN task /\ task[k] = "store"
  /\ UNCHANGED <<notes, i, provOut>>
  /\ storeOut' = [storeOut EXCEPT ![k] = IF updateOk THEN "ok" ELSE "error"]
  /\ IF updateOk
     THEN /\ store' = UpdateEmbedding(store, notes[k].id, Me, provOut[k].embedding)
          /\ Join(i, [task EXCEPT ![k] = "delay"], RecordProcessed(results))
     ELSE /\ UNCHANGED store
          /\ Join(i, [task EXCEPT ![k] = "delay"],
                  RecordError(results, notes[k].id, "Database update failed"))
  /\ UNCHANGED <<embedVars, searchVars, fnVars, noteVars, rtVars>>

\* l.89: the 100 ms timer of the k-th callback fires; the callback returns
TaskDelayElapsed(k) ==
  /\ bPc = "Processing"
  /\ k \in DOMAIN task /\ task[k] = "delay"
  /\ UNCHANGED <<store, notes, i, provOut, storeOut>>
  /\ Join(i, [task EXCEPT ![k] = "done"], results)
  /\ UNCHANGED <<embedVars, searchVars, fnVars, noteVars, rtVars>>

\* l.98 and l.59-62: the 1000 ms timer between chunks fires; the next chunk
\* starts
BatchDelayElapsed ==
  /\ bPc = "Waiting"
  /\ i' = NextChunkStart(i)
  /\ UNCHANGED <<store, notes, provOut, storeOut>>
  /\ LET started == StartTasks(notes, i' + 1, ChunkLast(i', Len(notes)),
                               task, results)
     IN Join(i', started.task, started.results)
  /\ UNCHANGED <<embedVars, searchVars, fnVars, noteVars, rtVars>>

(***************************************************************************)
(* Initial states and specifications.                                      *)
(***************************************************************************)
\* vectors stored in the Note table and returned for a query (SpecSearch)
SearchVectors == UNION {[1..d -> {0, 1}] : d \in 0..MaxDim}

\* vectors the provider returns during a batch run
BatchVectors == {<<1, 0>>}

Queries == TextsUpTo(1)
Thresholds == {0, 7, 10}
Limits == {-1, 1, 20}
Methods == {"POST", "GET"}

\* no call of a pure function is under way
FnIdle == fnPc = "ready" /\ fnIn = Nothing /\ fnOut = Nothing
Auths == {"none", "invalid", "ok"}

Title == <<"a">>

\* the Note table of SpecSearch: MaxCands notes of the user, each with or
\* without an embedding, and one note of another user
SearchStores ==
  {t \in [1..(MaxCands + 1) ->
           {Row(u, Title, <<>>, h, e, 0) : u \in {Me, Other}, h \in BOOLEAN,
                                            e \in SearchVectors}] :
     /\ \A n \in 1..MaxCands : t[n].userId = Me
     /\ t[MaxCands + 1] = Row(Other, Title, <<>>, TRUE, <<1, 0>>, 0)
     /\ \A n \in 1..MaxCands : ~t[n].hasEmbedding => t[n].embedding = <<>>}

\* the Note table of Spec: MaxNotes notes of the user, the first
\* `embedded` of them with an embedding already; the others have content of
\* exactly MinContentLength characters, but for the note `short`, which has
\* one character less; and one note of another user
BatchStore(embedded, short) ==
  [n \in 1..(MaxNotes + 1) |->
     IF n = MaxNotes + 1
     THEN Row(Other, <<>>, Repeat("a", MinContentLength), FALSE, <<>>, n)
     ELSE IF n <= embedded
     THEN Row(Me, <<>>, Repeat("a", MinContentLength), TRUE, <<0, 1>>, n)
     ELSE IF n = short
     THEN Row(Me, <<>>, <<" ">> \o Repeat("a", MinContentLength - 1), FALSE, <<>>, n)
     ELSE Row(Me, <<>>, Repeat("a", MinContentLength) \o <<" ">>, FALSE, <<>>, n)]

\* every note is scanned (none, the first scanned or the last scanned is
\* short), three notes are scanned (none or one of them is short), or no
\* note is left to scan
BatchStores ==
  {BatchStore(0, short) : short \in {0, 1, MaxNotes}}
    \cup {BatchStore(MaxNotes - 3, short) : short \in {0} \cup ((MaxNotes - 2)..MaxNotes)}
    \cup {BatchStore(MaxNotes, 0)}

InitEmbed ==
  /\ EmbedIdle /\ geLog = {}
  /\ SearchIdle /\ NoteRoutesIdle /\ RealtimeIdle
  /\ BatchIdle /\ store = BatchStore(0, 0)
  /\ FnIdle

EmbedNext ==
  \/ \E text \in TextsUpTo(MaxTextLen) : GenerateEmbeddingCall(text)
  \/ \E resp \in ProviderResponses(Vectors) : GenerateEmbeddingProviderReturn(resp)
  \/ GenerateEmbeddingReset

SpecEmbed == InitEmbed /\ [][EmbedNext]_vars

InitSearch ==
  /\ EmbedIdle /\ geLog = {}
  /\ SearchIdle /\ NoteRoutesIdle /\ RealtimeIdle
  /\ BatchIdle /\ store \in SearchStores
  /\ FnIdle

SearchNext ==
  \/ \E method \in Methods, auth \in Auths, query \in Queries,
        threshold \in Thresholds, limit \in Limits :
        SearchRequest(method, auth, query, threshold, limit)
  \/ \E dbOk \in BOOLEAN : SearchFetchReturn(dbOk)
  \/ \E resp \in ProviderResponses(SearchVectors) : SearchProviderReturn(resp)
  \/ SearchReset

SpecSearch == InitSearch /\ [][SearchNext]_vars

Init ==
  /\ EmbedIdle /\ geLog = {}
  /\ SearchIdle /\ NoteRoutesIdle /\ RealtimeIdle
  /\ BatchIdle /\ store \in BatchStores
  /\ FnIdle

Next ==
  \/ \E auth \in Auths : BatchRequest(auth)
  \/ \E dbOk \in BOOLEAN : BatchScanReturn(dbOk)
  \/ \E k \in 1..MaxNotes, resp \in ProviderResponses(BatchVectors) :
        TaskProviderReturn(k, resp)
  \/ \E k \in 1..MaxNotes, updateOk \in BOOLEAN : TaskStoreReturn(k, updateOk)
  \/ \E k \in 1..MaxNotes : TaskDelayElapsed(k)
  \/ BatchDelayElapsed

Spec == Init /\ [][Next]_vars

\* every awaited call settles and every timer fires: the run does not stop
\* while a step of it is enabled
FairSpec == Spec /\ WF_vars(Next)

(***************************************************************************)
(* SpecRerun: batch runs of one user, one after the other, on the same     *)
(* Note table: when a run has answered, the client may post the request    *)
(* again (embeddings/route.ts:11-29).  bEarlier keeps what became of each   *)
(* note of the runs that have ended.                                       *)
(***************************************************************************)
\* what became of the k-th scanned note of the run that has ended
OutcomeOf(k) ==
  IF storeOut[k] = "ok" THEN "processed"
  ELSE IF TooShort(FullText(notes[k])) THEN "short"
  ELSE "failed"

\* the run has answered; the next request of the user arrives at a handler
\* that shares nothing with the last one but the Note table
BatchReinvoke ==
  /\ bPc \in {"Completed", "Failed"}
  /\ bEarlier' = bEarlier \cup {<<notes[k].id, OutcomeOf(k)>> : k \in 1..Len(notes)}
  /\ bPc' = "Idle" /\ notes' = <<>> /\ i' = 0 /\ task' = <<>>
  /\ results' = NoResults /\ provOut' = <<>> /\ storeOut' = <<>>
  /\ bResponse' = Nothing
  /\ UNCHANGED <<store, embedNote, putNote>>
  /\ UNCHANGED <<embedVars, searchVars, fnVars, rtVars>>

\* six notes are left to scan (two chunks), the last scanned of them short
RerunStores == {BatchStore(MaxNotes - 6, MaxNotes - 5)}

InitRerun ==
  /\ EmbedIdle /\ geLog = {}
  /\ SearchIdle /\ NoteRoutesIdle /\ RealtimeIdle
  /\ BatchIdle /\ store \in RerunStores
  /\ FnIdle

RerunNext ==
  \/ \E auth \in Auths : BatchRequest(auth)
  \/ \E dbOk \in BOOLEAN : BatchScanReturn(dbOk)
  \/ \E k \in 1..MaxNotes, resp \in ProviderResponses(BatchVectors) :
        TaskProviderReturn(k, resp)
  \/ \E k \in 1..MaxNotes, updateOk \in BOOLEAN : TaskStoreReturn(k, updateOk)
  \/ \E k \in 1..MaxNotes : TaskDelayElapsed(k)
  \/ BatchDelayElapsed
  \/ BatchReinvoke

SpecRerun == InitRerun /\ [][RerunNext]_vars

(***************************************************************************)
(* POST of the embeddings route, single-note branch,                       *)
(* embeddings/route.ts:11-28 and 110-198.  embedNote is the request under  *)
(* way (Nothing when there is none); its pc is the await it stands at:      *)
(* "fetching" the note, "calling" generateEmbedding, "updating" the note,  *)
(* or "responded".  noteId = 0 is a body without noteId.                   *)
(***************************************************************************)
\* the variables of the batch branch but the Note table
runVars == <<bPc, notes, i, task, results, provOut, storeOut, bResponse>>

\* l.172-197: the catch block of the route
EmbedRouteCatch(error) ==
  IF Includes(error.message, "API key")
  THEN ErrorResponse(503, "AI service temporarily unavailable")
  ELSE IF Includes(error.message, "too short")
  THEN ErrorResponse(400, "Content is too short for embedding generation")
  ELSE ErrorResponse(500, "Failed to generate embedding. Please try again.")

\* l.163-169
EmbedResponse(embeddingResult, noteId) ==
  [status |-> 200, embedding |-> embeddingResult.embedding,
   tokens |-> embeddingResult.tokens,
   dimensions |-> Len(embeddingResult.embedding), saved |-> noteId # 0]

EmbedNoteAt(pc, noteId, text, result, response) ==
  [pc |-> pc, noteId |-> noteId, text |-> text, result |-> result,
   response |-> response]

\* l.141-148: the length check, then generateEmbedding up to the provider
\* call
EmbedNoteText(noteId, text) ==
  IF TooShort(text)
  THEN EmbedNoteAt("responded", noteId, text, Nothing,
         ErrorResponse(400, "Content is too short for embedding generation"))
  ELSE EmbedNoteAt("calling", noteId, text, Nothing, Nothing)

\* l.13-28 and l.110-139: the request arrives; body is Nothing when content
\* or title is missing or empty
EmbedNoteRequest(auth, noteId, body) ==
  /\ embedNote = Nothing
  /\ embedNote' =
       IF auth = "none"
       THEN EmbedNoteAt("responded", noteId, <<>>, Nothing,
                        ErrorResponse(401, "Unauthorized"))
       ELSE IF auth = "invalid"
       THEN EmbedNoteAt("responded", noteId, <<>>, Nothing,
                        ErrorResponse(401, "Invalid token"))
       ELSE IF noteId = 0 /\ body = Nothing
       THEN EmbedNoteAt("responded", noteId, <<>>, Nothing,
              ErrorResponse(400, "Either noteId or both content and title are required"))
       ELSE IF noteId # 0
       THEN EmbedNoteAt("fetching", noteId, <<>>, Nothing, Nothing)
       ELSE EmbedNoteText(noteId, FullText(body))
  /\ UNCHANGED <<store, runVars, bEarlier, putNote>>
  /\ UNCHANGED <<embedVars, searchVars, fnVars, rtVars>>

\* l.122-135: the query .eq('id', noteId).single() settles: it reports an
\* error when the store fails or has no such row
EmbedNoteFetchReturn(dbOk) ==
  /\ embedNote # Nothing /\ embedNote.pc = "fetching"
  /\ embedNote' =
       IF ~dbOk \/ embedNote.noteId \notin DOMAIN store
          \/ store[embedNote.noteId].userId # Me
       THEN [embedNote EXCEPT !.pc = "responded",
               !.response = ErrorResponse(404, "Note not found or unauthorized")]
       ELSE EmbedNoteText(embedNote.noteId, FullText(store[embedNote.noteId]))
  /\ UNCHANGED <<store, runVars, bEarlier, putNote>>
  /\ UNCHANGED <<embedVars, searchVars, fnVars, rtVars>>

\* l.148-156, l.163-169 and l.172-197: generateEmbedding settles; with a
\* noteId the update of the note is issued
EmbedNoteProviderReturn(resp) ==
  /\ embedNote # Nothing /\ embedNote.pc = "calling"
  /\ LET embeddingResult == GenerateEmbeddingPost(resp)
     IN embedNote' =
          IF ~embeddingResult.ok
          THEN [embedNote EXCEPT !.pc = "responded", !.result = embeddingResult,
                                 !.response = EmbedRouteCatch(embeddingResult)]
          ELSE IF embedNote.noteId # 0
          THEN [embedNote EXCEPT !.pc = "updating", !.result = embeddingResult]
          ELSE [embedNote EXCEPT !.pc = "responded", !.result = embeddingResult,
                                 !.response = EmbedResponse(embeddingResult, 0)]
  /\ UNCHANGED <<store, runVars, bEarlier, putNote>>
  /\ UNCHANGED <<embedVars, searchVars, fnVars, rtVars>>

\* l.152-169: the update .eq('id', noteId).eq('userId', user.id) settles
EmbedNoteStoreReturn(updateOk) ==
  /\ embedNote # Nothing /\ embedNote.pc = "updating"
  /\ IF updateOk
     THEN /\ store' = UpdateEmbedding(store, embedNote.noteId, Me,
                                      embedNote.result.embedding)
          /\ embedNote' = [embedNote EXCEPT !.pc = "responded",
               !.response = EmbedResponse(embedNote.result, embedNote.noteId)]
     ELSE /\ UNCHANGED store
          /\ embedNote' = [embedNote EXCEPT !.pc = "responded",
               !.response = ErrorResponse(500, "Failed to save embedding to note")]
  /\ UNCHANGED <<runVars, bEarlier, putNote>>
  /\ UNCHANGED <<embedVars, searchVars, fnVars, rtVars>>

\* the response is sent; the next request may arrive
EmbedNoteReset ==
  /\ embedNote # Nothing /\ embedNote.pc = "responded"
  /\ embedNote' = Nothing
  /\ UNCHANGED <<store, runVars, bEarlier, putNote>>
  /\ UNCHANGED <<embedVars, searchVars, fnVars, rtVars>>

(***************************************************************************)
(* SpecOwner: a batch run, single-note requests and searches of the user   *)
(* Me, interleaved, on a Note table that also holds notes of another user. *)
(***************************************************************************)
\* two notes of each user, one without and one with an embedding
OwnerStore ==
  <<Row(Me, <<>>, Repeat("a", MinContentLength), FALSE, <<>>, 1),
    Row(Me, <<>>, Repeat("a", MinContentLength), TRUE, <<0, 1>>, 2),
    Row(Other, <<>>, Repeat("a", MinContentLength), FALSE, <<>>, 3),
    Row(Other, <<>>, Repeat("a", MinContentLength), TRUE, <<1, 0>>, 4)>>

\* a noteId of each row, a noteId of no row, and no noteId
NoteIds == 0..(Len(OwnerStore) + 1)

\* bodies without noteId: content or title missing, too short, long enough
Bodies ==
  {Nothing, [title |-> <<"a">>, content |-> <<"b">>],
   [title |-> <<"a">>, content |-> Repeat("b", MinContentLength)]}

InitOwner ==
  /\ EmbedIdle /\ geLog = {}
  /\ SearchIdle /\ NoteRoutesIdle /\ RealtimeIdle
  /\ BatchIdle /\ store = OwnerStore
  /\ FnIdle

\* the scan finds fewer notes than a chunk holds, so the run never waits
\* between chunks
OwnerNext ==
  \/ \E auth \in Auths : BatchRequest(auth)
  \/ \E dbOk \in BOOLEAN : BatchScanReturn(dbOk)
  \/ \E k \in 1..MaxNotes, resp \in ProviderResponses(BatchVectors) :
        TaskProviderReturn(k, resp)
  \/ \E k \in 1..MaxNotes, updateOk \in BOOLEAN : TaskStoreReturn(k, updateOk)
  \/ \E k \in 1..MaxNotes : TaskDelayElapsed(k)
  \/ \E auth \in Auths, noteId \in NoteIds, body \in Bodies :
        EmbedNoteRequest(auth, noteId, body)
  \/ \E dbOk \in BOOLEAN : EmbedNoteFetchReturn(dbOk)
  \/ \E resp \in ProviderResponses(BatchVectors) : EmbedNoteProviderReturn(resp)
  \/ \E updateOk \in BOOLEAN : EmbedNoteStoreReturn(updateOk)
  \/ EmbedNoteReset
  \/ \E method \in Methods, auth \in Auths :
        SearchRequest(method, auth, <<"a">>, 0, 20)
  \/ \E dbOk \in BOOLEAN : SearchFetchReturn(dbOk)
  \/ \E resp \in ProviderResponses(BatchVectors) : SearchProviderReturn(resp)
  \/ SearchReset

SpecOwner == InitOwner /\ [][OwnerNext]_vars

(***************************************************************************)
(* PUT of the notes/[id] route, src/unnamed/part_011:63-168.  putNote is   *)
(* the request under way (Nothing when there is none); its pc is the await *)
(* it stands at: "finding" the note, "calling" generateEmbedding,          *)
(* "updating" the note, "tagging", "reading" the note back, or            *)
(* "responded".  A body says of title, content and tagIds whether they are *)
(* defined; the NoteTag table is not modelled.                             *)
(***************************************************************************)
\* l.93: `${title || existingNote.title || ""} ${text}`.trim()
PutFullText(body, existingNote) ==
  LET title == IF body.hasTitle /\ body.title # <<>> THEN body.title
               ELSE existingNote.title
  IN Trim(title \o <<" ">> \o ExtractText(body.content))

\* l.89-105: the embedding to write; it stays undefined when
\* generateEmbedding threw, which the catch block only logs
M_PutEmbeddingEmptyOnFailure(embeddingResult) ==
  IF embeddingResult.ok
  THEN [defined |-> TRUE, embedding |-> embeddingResult.embedding]
  ELSE [defined |-> TRUE, embedding |-> <<>>]
PutEmbedding(embeddingResult) ==
  IF embeddingResult.ok
  THEN [defined |-> TRUE, embedding |-> embeddingResult.embedding]
  ELSE [defined |-> FALSE, embedding |-> <<>>]

\* l.89
NoEmbedding == [defined |-> FALSE, embedding |-> <<>>]

\* the time of the update (new Date()), later than every updatedAt of the
\* table
Now == 100

\* l.109-120: an undefined field of data is left as it is
PutUpdate(row, body, embedding) ==
  [row EXCEPT !.title = IF body.hasTitle THEN body.title ELSE @,
              !.content = IF body.hasContent THEN body.content ELSE @,
              !.hasEmbedding = IF embedding.defined THEN TRUE ELSE @,
              !.embedding = IF embedding.defined THEN embedding.embedding ELSE @,
              !.updatedAt = Now]

\* l.161-167
PutCatch == ErrorResponse(500, "Internal server error")

\* l.68-82: the request arrives
PutRequest(auth, id, body) ==
  /\ putNote = Nothing
  /\ putNote' =
       [pc |-> IF auth = "ok" THEN "finding" ELSE "responded",
        id |-> id, body |-> body, result |-> Nothing, embedding |-> NoEmbedding,
        db |-> "ok",
        response |-> IF auth = "ok" THEN Nothing
                     ELSE ErrorResponse(401, "Unauthorized")]
  /\ UNCHANGED <<store, runVars, bEarlier, embedNote>>
  /\ UNCHANGED <<embedVars, searchVars, fnVars, rtVars>>

\* l.77-98: findFirst({ id, userId }) settles; generateEmbedding runs up to
\* the provider call when content is defined and the text is long enough
PutFindReturn(dbOk) ==
  /\ putNote # Nothing /\ putNote.pc = "finding"
  /\ putNote' =
       IF ~dbOk
       THEN [putNote EXCEPT !.pc = "responded", !.db = "error", !.response = PutCatch]
       ELSE IF putNote.id \notin DOMAIN store \/ store[putNote.id].userId # Me
       THEN [putNote EXCEPT !.pc = "responded",
                            !.response = ErrorResponse(404, "Note not found")]
       ELSE IF /\ putNote.body.hasContent
               /\ Len(PutFullText(putNote.body, store[putNote.id])) >= 10
       THEN [putNote EXCEPT !.pc = "calling"]
       ELSE [putNote EXCEPT !.pc = "updating"]
  /\ UNCHANGED <<store, runVars, bEarlier, embedNote>>
  /\ UNCHANGED <<embedVars, searchVars, fnVars, rtVars>>

\* l.96-109: generateEmbedding settles; the update is issued
PutProviderReturn(resp) ==
  /\ putNote # Nothing /\ putNote.pc = "calling"
  /\ LET embeddingResult == GenerateEmbeddingPost(resp)
     IN putNote' = [putNote EXCEPT !.pc = "updating", !.result = embeddingResult,
                                   !.embedding = PutEmbedding(embeddingResult)]
  /\ UNCHANGED <<store, runVars, bEarlier, embedNote>>
  /\ UNCHANGED <<embedVars, searchVars, fnVars, rtVars>>

\* l.109-143: update({ where: { id } }) settles
PutUpdateReturn(dbOk) ==
  /\ putNote # Nothing /\ putNote.pc = "updating"
  /\ IF dbOk
     THEN /\ store' = [store EXCEPT ![putNote.id] =
                         PutUpdate(@, putNote.body, putNote.embedding)]
          /\ putNote' = [putNote EXCEPT !.pc = IF putNote.body.hasTags
                                               THEN "tagging" ELSE "reading"]
     ELSE /\ UNCHANGED store
          /\ putNote' = [putNote EXCEPT !.pc = "responded", !.db = "error",
                                        !.response = PutCatch]
  /\ UNCHANGED <<runVars, bEarlier, embedNote>>
  /\ UNCHANGED <<embedVars, searchVars, fnVars, rtVars>>

\* l.123-160: the writes of the tags, then findUnique, settle
PutAfterUpdateReturn(dbOk) ==
  /\ putNote # Nothing /\ putNote.pc \in {"tagging", "reading"}
  /\ putNote' =
       IF ~dbOk
       THEN [putNote EXCEPT !.pc = "responded", !.db = "error", !.response = PutCatch]
       ELSE IF putNote.pc = "tagging" THEN [putNote EXCEPT !.pc = "reading"]
       ELSE [putNote EXCEPT !.pc = "responded",
               !.response = [status |-> 200, note |-> store[putNote.id]]]
  /\ UNCHANGED <<store, runVars, bEarlier, embedNote>>
  /\ UNCHANGED <<embedVars, searchVars, fnVars, rtVars>>

\* title, content and tagIds defined or not; content too short or long
\* enough for an embedding
PutBodies ==
  {[hasTitle |-> t, title |-> IF t THEN <<"t">> ELSE <<>>,
    hasContent |-> c # <<>>, content |-> c, hasTags |-> g] :
     t \in BOOLEAN, g \in BOOLEAN,
     c \in {<<>>, <<"b">>, Repeat("b", MinContentLength)}}

InitPut ==
  /\ EmbedIdle /\ geLog = {}
  /\ SearchIdle /\ NoteRoutesIdle /\ RealtimeIdle
  /\ BatchIdle /\ store = OwnerStore
  /\ FnIdle

PutNext ==
  \/ \E auth \in Auths, id \in NoteIds \ {0}, body \in PutBodies :
        PutRequest(auth, id, body)
  \/ \E dbOk \in BOOLEAN : PutFindReturn(dbOk)
  \/ \E resp \in ProviderResponses(BatchVectors) : PutProviderReturn(resp)
  \/ \E dbOk \in BOOLEAN : PutUpdateReturn(dbOk)
  \/ \E dbOk \in BOOLEAN : PutAfterUpdateReturn(dbOk)

SpecPut == InitPut /\ [][PutNext]_vars

(***************************************************************************)
(* RealtimeSyncService, realtime-sync.ts:38-403, with the Pusher client by *)
(* its contract: new Pusher opens a connection of its own; subscribe adds  *)
(* a channel to a connection and unsubscribe removes it; disconnect closes *)
(* the connection with its channels; a channel of an open connection       *)
(* delivers its events to the callbacks bound to it, and it announces      *)
(* pusher:subscription_succeeded each time it is subscribed, which is once *)
(* more after every reconnection.  Of the collaborators map the keys are    *)
(* kept; the typing timeout and the event listeners are not modelled.      *)
(***************************************************************************)
\* connections the service may open
MaxPushers == 2
\* interval timers the service may set
MaxTimers == 3

RtNotes == {"n1", "n2"}
RtUsers == {Me, Other}

\* the fields of the service and the state of its connections and timers
Rt ==
  [pusher |-> rtPusher, channel |-> rtChannel, userId |-> rtUserId,
   currentNoteId |-> rtCurrentNoteId, collaborators |-> rtCollaborators,
   heartbeat |-> rtHeartbeat, timers |-> rtTimers, subs |-> rtSubs,
   created |-> rtCreated]

\* the step ends with the service in state s
RtBecomes(s) ==
  /\ rtPusher' = s.pusher /\ rtChannel' = s.channel /\ rtUserId' = s.userId
  /\ rtCurrentNoteId' = s.currentNoteId /\ rtCollaborators' = s.collaborators
  /\ rtHeartbeat' = s.heartbeat /\ rtTimers' = s.timers /\ rtSubs' = s.subs
  /\ rtCreated' = s.created
  /\ UNCHANGED <<embedVars, searchVars, batchVars, fnVars, noteVars>>

\* l.348-358: setInterval returns a new timer; the handle is overwritten
startHeartbeat(s) ==
  LET timer == s.created.timers + 1
  IN [s EXCEPT !.heartbeat = timer, !.timers = @ \cup {timer},
               !.created.timers = timer]

\* l.360-365
stopHeartbeat(s) ==
  IF s.heartbeat # 0
  THEN [s EXCEPT !.timers = @ \ {s.heartbeat}, !.heartbeat = 0]
  ELSE s

\* l.172-181: this.pusher?.unsubscribe(name) removes the channel of that
\* name from the connection this.pusher
unsubscribeFromNote(s) ==
  IF s.channel # Nothing /\ s.currentNoteId # None
  THEN stopHeartbeat([s EXCEPT !.subs = @ \ {<<s.pusher, s.currentNoteId>>},
                               !.channel = Nothing, !.currentNoteId = None,
                               !.collaborators = {}])
  ELSE s

\* l.51-92: configured is whether the two environment variables are set
Initialize(userId, configured) ==
  /\ rtCreated.pushers < MaxPushers
  /\ RtBecomes(IF ~configured THEN Rt
               ELSE [Rt EXCEPT !.userId = userId,
                               !.pusher = rtCreated.pushers + 1,
                               !.created.pushers = @ + 1])

\* l.95-169
SubscribeToNote(noteId) ==
  /\ noteId \in RtNotes
  /\ RtBecomes(IF rtPusher = 0 \/ rtUserId = None THEN Rt
               ELSE LET s == unsubscribeFromNote(Rt)
                    IN [s EXCEPT !.currentNoteId = noteId,
                                 !.channel = [pusher |-> s.pusher, note |-> noteId],
                                 !.subs = @ \cup {<<s.pusher, noteId>>}])

\* l.172-181
UnsubscribeFromNote ==
  /\ RtBecomes(unsubscribeFromNote(Rt))

\* l.376-393
Disconnect ==
  /\ LET s == unsubscribeFromNote(stopHeartbeat(Rt))
     IN RtBecomes([s EXCEPT !.subs = {c \in @ : c[1] # s.pusher}, !.pusher = 0,
                            !.collaborators = {}, !.userId = None])

\* l.112-116: a channel of an open connection is subscribed, for the first
\* time or again
SubscriptionSucceeded(channel) ==
  /\ channel \in rtSubs
  /\ rtCreated.timers < MaxTimers
  /\ RtBecomes(startHeartbeat(Rt))

\* l.146-154 and l.320-327
MemberAdded(channel, member) ==
  /\ channel \in rtSubs
  /\ RtBecomes(IF member # rtUserId
               THEN [Rt EXCEPT !.collaborators = @ \cup {member}] ELSE Rt)

\* l.156-162 and l.329-331
MemberRemoved(channel, member) ==
  /\ channel \in rtSubs
  /\ RtBecomes([Rt EXCEPT !.collaborators = @ \ {member}])

\* l.131-143 and l.333-346: a collaborator who is typing is added if the
\* map does not have them
UserTyping(channel, user, isTyping) ==
  /\ channel \in rtSubs
  /\ RtBecomes(IF user # rtUserId /\ isTyping
               THEN [Rt EXCEPT !.collaborators = @ \cup {user}] ELSE Rt)

InitRealtime ==
  /\ EmbedIdle /\ geLog = {}
  /\ SearchIdle /\ NoteRoutesIdle /\ RealtimeIdle
  /\ BatchIdle /\ store = BatchStore(0, 0)
  /\ FnIdle

RealtimeNext ==
  \/ \E userId \in RtUsers, configured \in BOOLEAN : Initialize(userId, configured)
  \/ \E noteId \in RtNotes : SubscribeToNote(noteId)
  \/ UnsubscribeFromNote
  \/ Disconnect
  \/ \E channel \in rtSubs : SubscriptionSucceeded(channel)
  \/ \E channel \in rtSubs, member \in RtUsers : MemberAdded(channel, member)
  \/ \E channel \in rtSubs, member \in RtUsers : MemberRemoved(channel, member)
  \/ \E channel \in rtSubs, user \in RtUsers, isTyping \in BOOLEAN :
        UserTyping(channel, user, isTyping)

SpecRealtime == InitRealtime /\ [][RealtimeNext]_vars

(***************************************************************************)
(* One call of a pure function of ai-service.ts on arguments drawn from a  *)
(* bounded set: fnIn holds the arguments, fnOut what the call returned or  *)
(* threw.                                                                  *)
(***************************************************************************)
\* the ranking of semanticSearch (l.282-291) on a query vector, a list of
\* candidates and a threshold
RankCall ==
  /\ fnPc = "ready"
  /\ fnOut' = RankNotes(fnIn.queryEmbedding, fnIn.noteEmbeddings, fnIn.threshold)
  /\ fnPc' = "done"
  /\ UNCHANGED fnIn
  /\ UNCHANGED <<embedVars, searchVars, batchVars, noteVars, rtVars>>

RankThresholds == {-10, 0, 7, 10}

\* the query vectors of dimension d: all components 1, or the first one only
RankQueries(d) == {[k \in 1..d |-> 1], [k \in 1..d |-> IF k = 1 THEN 1 ELSE 0]}

\* lists of up to MaxCands candidate vectors of dimension d
CandidateLists(d) == UNION {[1..n -> VectorsOfDim(d)] : n \in 0..MaxCands}

\* the id of a candidate is its position
NoteEmbeddings(vectors) ==
  [k \in 1..Len(vectors) |-> [id |-> k, title |-> Title, embedding |-> vectors[k]]]

InitRank ==
  /\ EmbedIdle /\ geLog = {}
  /\ SearchIdle /\ NoteRoutesIdle /\ RealtimeIdle
  /\ BatchIdle /\ store = BatchStore(0, 0)
  /\ fnPc = "ready" /\ fnOut = Nothing
  /\ \E d \in 0..MaxDim :
       fnIn \in {[queryEmbedding |-> q, noteEmbeddings |-> NoteEmbeddings(c),
                  threshold |-> t] :
                   q \in RankQueries(d), c \in CandidateLists(d), t \in RankThresholds}

RankNext == RankCall

SpecRank == InitRank /\ [][RankNext]_vars

(***************************************************************************)
(* Calls of cosineSimilarity (ai-service.ts:240-263) on its own: fnIn      *)
(* holds the arguments a and b, fnOut the number returned or the error     *)
(* thrown.                                                                 *)
(***************************************************************************)
CosineCall ==
  /\ fnPc = "ready"
  /\ fnOut' = CosineSimilarity(fnIn.a, fnIn.b)
  /\ fnPc' = "done"
  /\ UNCHANGED fnIn
  /\ UNCHANGED <<embedVars, searchVars, batchVars, noteVars, rtVars>>

InitCosine ==
  /\ EmbedIdle /\ geLog = {}
  /\ SearchIdle /\ NoteRoutesIdle /\ RealtimeIdle
  /\ BatchIdle /\ store = BatchStore(0, 0)
  /\ fnPc = "ready" /\ fnOut = Nothing
  /\ fnIn \in [a : Vectors, b : Vectors]

CosineNext == CosineCall

SpecCosine == InitCosine /\ [][CosineNext]_vars

(***************************************************************************)
(* extractTextFromTipTapContent, ai-service.ts:27-58.  A JSON value is     *)
(*   Nothing                            null or absent,                    *)
(*   [string |-> s]                     the string s,                      *)
(*   [type |-> t, text |-> s, content |-> c]  an object: t is "none" when  *)
(*       the node has no type, s is <<>> when it has no text and c is <<>> *)
(*       when it has no content array.                                     *)
(* fnIn holds the argument; fnOut holds the value of extractText(content)  *)
(* at l.57 (untrimmed) and the string returned (text).                     *)
(***************************************************************************)
StringValue(s) == [string |-> s]

Node(t, s, c) == [type |-> t, text |-> s, content |-> c]

\* l.49
M_BlockTypesWithoutQuote == {"paragraph", "heading"}
BlockTypes == {"paragraph", "heading", "blockquote"}

RECURSIVE extractText(_)
RECURSIVE ExtractChildren(_)

\* l.42-46: for (const child of node.content) text += extractText(child)
ExtractChildren(content) ==
  IF content = <<>> THEN <<>>
  ELSE extractText(Head(content)) \o ExtractChildren(Tail(content))

\* l.30-55
extractText(node) ==
  IF "string" \in DOMAIN node THEN node.string
  ELSE IF node = Nothing THEN <<>>
  ELSE node.text \o ExtractChildren(node.content)
         \o (IF node.type \in BlockTypes THEN <<" ">> ELSE <<>>)

\* l.57 without the trim
M_ExtractUntrimmed(content) ==
  IF content = Nothing THEN <<>> ELSE extractText(content)

\* l.28, l.57
ExtractTextFromTipTapContent(content) ==
  IF content = Nothing THEN <<>> ELSE Trim(extractText(content))

ExtractCall ==
  /\ fnPc = "ready"
  /\ fnOut' = [untrimmed |-> IF fnIn = Nothing THEN <<>> ELSE extractText(fnIn),
               text |-> ExtractTextFromTipTapContent(fnIn)]
  /\ fnPc' = "done"
  /\ UNCHANGED fnIn
  /\ UNCHANGED <<embedVars, searchVars, batchVars, noteVars, rtVars>>

\* sequences of at most n elements of S
SeqsUpTo(S, n) == UNION {[1..k -> S] : k \in 0..n}

\* text nodes
InlineNodes == {Node("text", s, <<>>) : s \in {<<"a">>, <<" ", "b">>}}

\* paragraphs and headings of text nodes
InnerNodes ==
  {Node(t, <<>>, c) : t \in {"paragraph", "heading"}, c \in SeqsUpTo(InlineNodes, MaxKids)}

\* a document, or a block quote with a text of its own, of inner and text
\* nodes
Documents ==
  {Node(ts[1], ts[2], c) : ts \in {<<"doc", <<>>>>, <<"blockquote", <<"b">>>>},
                           c \in SeqsUpTo(InnerNodes \cup InlineNodes, MaxKids)}

Hello == <<"H", "e", "l", "l", "o">>

World == <<"W", "o", "r", "l", "d">>

HelloWorldDocument ==
  Node("doc", <<>>, <<Node("paragraph", <<>>, <<Node("text", Hello, <<>>)>>),
                      Node("paragraph", <<>>, <<Node("text", World, <<>>)>>)>>)

\* further arguments: null, strings, a node without type, a document with a
\* string and a null among its children
OtherContents ==
  {Nothing, StringValue(<<>>), StringValue(<<" ", "a", " ">>),
   Node(None, <<"a">>, <<>>),
   Node("doc", <<>>, <<StringValue(<<"a">>), Nothing, Node("heading", <<"b">>, <<>>)>>),
   HelloWorldDocument}

\* string arguments
StringContents == {StringValue(s) : s \in TextsUpTo(MaxTextLen)}

InitExtract ==
  /\ EmbedIdle /\ geLog = {}
  /\ SearchIdle /\ NoteRoutesIdle /\ RealtimeIdle
  /\ BatchIdle /\ store = BatchStore(0, 0)
  /\ fnPc = "ready" /\ fnOut = Nothing
  /\ fnIn \in Documents \cup OtherContents \cup StringContents

ExtractNext == ExtractCall

SpecExtract == InitExtract /\ [][ExtractNext]_vars

(***************************************************************************)
(* Properties of the batch run (Spec, FairSpec).                           *)
(***************************************************************************)
Scanned == 1..Len(notes)

IsShort(k) == Len(FullText(notes[k])) < 10
ProviderFailed(k) == "ok" \in DOMAIN provOut[k] /\ ~provOut[k].ok
ProviderGave(k) == "ok" \in DOMAIN provOut[k] /\ provOut[k].ok
StoreFailed(k) == storeOut[k] = "error"
Persisted(k) ==
  /\ ProviderGave(k)
  /\ store[notes[k].id].hasEmbedding
  /\ store[notes[k].id].embedding = provOut[k].embedding

Listed(k, details) == \E entry \in BagToSet(details) : entry[2] = notes[k].id

Outstanding == {k \in Scanned : task[k] = "provider"}

RunCompleted == bPc = "Completed" /\ notes # <<>>

\* C1: at the end of a batch run, whatever notes failed at the provider or
\* at the store, every scanned note with enough content that did not fail
\* has its embedding persisted, the run answers with its summary (it does
\* not throw), and every failed note is counted in errors and listed in
\* errorDetails.
C1_FailureIsolation ==
  RunCompleted =>
    /\ bResponse.status = 200
    /\ \A k \in Scanned :
         /\ (~IsShort(k) /\ ~ProviderFailed(k) /\ ~StoreFailed(k)) => Persisted(k)
         /\ (ProviderFailed(k) \/ StoreFailed(k)) => Listed(k, bResponse.errorDetails)
    /\ bResponse.errors >= Cardinality({k \in Scanned : ProviderFailed(k) \/ StoreFailed(k)})
    /\ bResponse.errors = BagCardinality(bResponse.errorDetails)

\* a completed run of two chunks in which a note of the first chunk failed
\* at the provider, another at the store, and a later note of the first
\* chunk and a note of the second chunk were persisted
C1_Witness ==
  /\ RunCompleted
  /\ \E a, b, c \in Scanned, d \in Scanned :
       /\ a < c /\ b < c /\ c <= BatchSize /\ d > BatchSize
       /\ ProviderFailed(a) /\ StoreFailed(b) /\ Persisted(c) /\ Persisted(d)

\* C2: a run that has its candidate set (it is processing a chunk or waiting
\* between chunks) eventually completes and answers with its counts.
C2_RunCompletes ==
  (bPc \in {"Processing", "Waiting"}) ~>
    (bPc = "Completed" /\ bResponse.status = 200
       /\ bResponse.processed + bResponse.errors = Len(notes))

\* a completed run of more than one chunk in which every item failed
C2_Witness ==
  /\ RunCompleted /\ Len(notes) > BatchSize
  /\ bResponse.processed = 0 /\ bResponse.errors = Len(notes)
  /\ \E k \in Scanned : ProviderFailed(k)
  /\ \E k \in Scanned : StoreFailed(k)

\* C3: at every moment at most 5 provider calls are outstanding.
C3_BoundedOutstanding == Cardinality(Outstanding) <= 5

\* five calls are outstanding, and a call of the second chunk is
C3_Witness == Cardinality(Outstanding) = 5 /\ Len(notes) > 5

C3_WitnessSecondChunk == i > 0 /\ Outstanding # {}

ShortNotes == {k \in Scanned : IsShort(k)}
FailedNotes == {k \in Scanned : ProviderFailed(k) \/ StoreFailed(k)}
StoredNotes == {k \in Scanned : storeOut[k] = "ok"}

Blank(text) == Trim(text) = <<>>

\* C5: generateEmbedding with empty or whitespace-only text fails, and with
\* an error the caller can tell apart from the error of a provider failure:
\* no invocation that failed for empty input threw the same error as an
\* invocation that failed at the provider.
C5_EmptyInputDistinct ==
  /\ (gePc = "returned" /\ Blank(geText)) => ~geResult.ok
  /\ \A e1, e2 \in geLog : (e1[1] = "empty" /\ e2[1] = "provider") => e1[2] # e2[2]

\* C6: generateEmbedding never resolves with an empty vector.
C6_NoEmptyVector ==
  (gePc = "returned" /\ geResult.ok) => geResult.embedding # <<>>

\* C7: an invocation of generateEmbedding issues no provider call for empty
\* or whitespace-only text and exactly one otherwise, also when the provider
\* call fails.
C7_AtMostOneProviderCall ==
  /\ geCalls <= 1
  /\ gePc = "calling" => geCalls = 1 /\ ~Blank(geText)
  /\ gePc = "returned" => geCalls = (IF Blank(geText) THEN 0 ELSE 1)

\* an invocation has failed at the provider, with one call issued
C7_Witness ==
  /\ gePc = "returned" /\ ~geResult.ok /\ ~Blank(geText) /\ geCalls = 1
  /\ <<"provider", geResult.message>> \in geLog

\* an invocation with whitespace-only text has failed, with no call issued
C7_WitnessBlank ==
  gePc = "returned" /\ geText # <<>> /\ Blank(geText) /\ geCalls = 0

(***************************************************************************)
(* Properties of the search route (SpecSearch).                            *)
(***************************************************************************)
Candidates == ValidEmbeddings(srNotes)

Mismatched ==
  /\ srPc = "responded" /\ "ok" \in DOMAIN srEmbedding /\ srEmbedding.ok
  /\ srEmbedding.embedding # <<>>
  /\ \E k \in 1..Len(Candidates) :
       Len(Candidates[k].embedding) # Len(srEmbedding.embedding)

\* C8: when a candidate's vector length differs from the query vector's,
\* the search fails as a whole and the caller gets the dimension-mismatch
\* error: semanticSearch throws the error of cosineSimilarity and the route
\* answers with its dimension-mismatch response.
C8_DimensionMismatchSurfaces ==
  Mismatched =>
    /\ ~srSearch.ok
    /\ srSearch.message = MsgDimensions
    /\ srResponse =
         ErrorResponse(400, "Embedding format mismatch. Please regenerate embeddings.")

\* what does hold: the search fails as a whole, with no result list
C8_NoPartialResult ==
  Mismatched => ~srSearch.ok /\ "results" \notin DOMAIN srResponse
                  /\ srResponse.status # 200

\* C9: when embedding the query fails, semanticSearch fails with the very
\* error generateEmbedding threw.
C9_EmbedErrorUnchanged ==
  (srPc = "responded" /\ "ok" \in DOMAIN srEmbedding /\ ~srEmbedding.ok)
    => srSearch = srEmbedding

\* C10: a search with a non-empty query over an empty candidate set answers
\* without error with results = [], totalFound = 0 and totalCandidates = 0
\* (totalNotes in the response).
C10_EmptyCandidates ==
  (srPc = "responded" /\ srFetch = "ok" /\ Candidates = <<>>) =>
    /\ srResponse.status = 200
    /\ srResponse.results = <<>>
    /\ "totalFound" \in DOMAIN srResponse /\ srResponse.totalFound = 0
    /\ "totalNotes" \in DOMAIN srResponse /\ srResponse.totalNotes = 0

\* what does hold: the answer is a success with an empty result list
C10_EmptyResultNoError ==
  (srPc = "responded" /\ srFetch = "ok" /\ Candidates = <<>>) =>
    srResponse.status = 200 /\ srResponse.results = <<>>

\* the response to a search that ran: semanticSearch resolved
Searched == srPc = "responded" /\ "ok" \in DOMAIN srSearch /\ srSearch.ok

\* the candidates whose similarity to the query vector reaches the threshold
AtOrAbove ==
  {k \in 1..Len(Candidates) :
     LET sim == CosineSimilarity(srEmbedding.embedding, Candidates[k].embedding)
     IN sim.ok /\ FCmp(sim.value, Tenths(srThreshold)) >= 0}

\* the entries of the response are those of the ranked list, in its order
SameEntries(entries, ranked) ==
  /\ Len(entries) = Len(ranked)
  /\ \A k \in 1..Len(entries) :
       /\ entries[k].id = ranked[k].id
       /\ entries[k].similarity = ranked[k].similarity

\* C11: the results of a search are the first min(limit, totalFound) entries
\* of the ranked list, and totalFound is the number of candidates whose
\* similarity reaches the threshold, whatever the limit.
C11_FirstMinLimitTotalFound ==
  Searched =>
    /\ srResponse.totalFound = Cardinality(AtOrAbove)
    /\ SameEntries(srResponse.results,
                   SubSeq(srSearch.results, 1, Min(srLimit, srResponse.totalFound)))

\* what does hold: the statement of C11 for a limit that is not negative
C11_NonNegativeLimit ==
  (Searched /\ srLimit >= 0) =>
    /\ srResponse.totalFound = Cardinality(AtOrAbove)
    /\ SameEntries(srResponse.results,
                   SubSeq(srSearch.results, 1, Min(srLimit, srResponse.totalFound)))

\* two candidates, one at or above the threshold and one below, limit 1
C11_NonNegativeLimitWitness ==
  /\ Searched /\ srLimit = 1 /\ Len(Candidates) = 2
  /\ Cardinality(AtOrAbove) = 1 /\ Len(srResponse.results) = 1

\* more matches than the limit: the list is cut and totalFound is not
C11_NonNegativeLimitCut ==
  Searched /\ srLimit = 1 /\ srResponse.totalFound = 2 /\ Len(srResponse.results) = 1

\* C12: a search whose query is empty, or only whitespace, fails with the
\* validation failure for a missing query (status 400), for every request
\* that is authenticated (and whose note-store query does not fail).
C12_BlankQueryIsValidationFailure ==
  (srPc = "responded" /\ Blank(srQuery) /\ srResponse.status # 401
     /\ srFetch # "error") =>
    /\ srResponse.status = 400
    /\ srResponse = QueryMissingResponse(srMethod)

\* what does hold: the statement of C12 for POST requests
C12_BlankQueryPost ==
  (srPc = "responded" /\ srMethod = "POST" /\ Blank(srQuery)
     /\ srResponse.status # 401) =>
    srResponse = ErrorResponse(400, "Query is required")

(***************************************************************************)
(* Properties of the ranking (SpecRank).                                   *)
(***************************************************************************)
Ranked == fnPc = "done" /\ fnOut.ok

\* the similarity of the k-th candidate to the query vector
SimilarityOf(k) ==
  CosineSimilarity(fnIn.queryEmbedding, fnIn.noteEmbeddings[k].embedding).value

ReachesThreshold(sim) == FCmp(sim, Tenths(fnIn.threshold)) >= 0

\* C13: the ranking never returns an entry whose similarity is below the
\* threshold, and it returns every candidate whose similarity is at or above
\* the threshold exactly once.
C13_ExactlyTheCandidatesAtOrAbove ==
  Ranked =>
    /\ \A j \in 1..Len(fnOut.results) :
         /\ ReachesThreshold(fnOut.results[j].similarity)
         /\ fnOut.results[j].id \in 1..Len(fnIn.noteEmbeddings)
         /\ fnOut.results[j].similarity = SimilarityOf(fnOut.results[j].id)
    /\ \A k \in 1..Len(fnIn.noteEmbeddings) :
         ReachesThreshold(SimilarityOf(k)) =>
           Cardinality({j \in 1..Len(fnOut.results) : fnOut.results[j].id = k}) = 1

\* of two candidates the one returned is exactly at the threshold
C13_Witness ==
  /\ Ranked /\ Len(fnIn.noteEmbeddings) = 2 /\ Len(fnOut.results) = 1
  /\ fnOut.results[1].similarity = Tenths(fnIn.threshold)

\* of two candidates the one returned is above the threshold 0.7
C13_WitnessBelow ==
  /\ Ranked /\ Len(fnIn.noteEmbeddings) = 2 /\ Len(fnOut.results) = 1
  /\ FCmp(fnOut.results[1].similarity, Tenths(fnIn.threshold)) > 0
  /\ fnIn.threshold = 7

\* C14: the list the ranking returns is sorted by similarity, non-increasing:
\* no entry has a smaller similarity than the entry after it.
C14_SortedNonIncreasing ==
  Ranked =>
    \A j \in 1..(Len(fnOut.results) - 1) :
      FCmp(fnOut.results[j].similarity, fnOut.results[j + 1].similarity) >= 0

\* the second candidate is more similar than the first and comes first
C14_Witness ==
  /\ Ranked /\ Len(fnOut.results) = 2
  /\ fnOut.results[1].id = 2 /\ fnOut.results[2].id = 1
  /\ FCmp(fnOut.results[1].similarity, fnOut.results[2].similarity) > 0

(***************************************************************************)
(* Properties of cosineSimilarity (SpecCosine).                            *)
(***************************************************************************)
Compared == fnPc = "done"

AllZero(v) == \A k \in 1..Len(v) : v[k] = 0

Negated(v) == [k \in 1..Len(v) |-> 0 - v[k]]

\* C15: for every pair of vectors of different lengths cosineSimilarity
\* fails with the dimension-mismatch error and computes no result.
C15_DifferentLengthsFail ==
  (Compared /\ Len(fnIn.a) # Len(fnIn.b)) =>
    /\ ~fnOut.ok
    /\ fnOut.message = MsgDimensions
    /\ "value" \notin DOMAIN fnOut

\* a call with a longer second vector that shares the first one as a prefix
C15_Witness ==
  /\ Compared /\ fnIn.a = <<1>> /\ fnIn.b = <<1, 0>>
  /\ ~fnOut.ok

\* C16: for vectors of equal length of which at least one has only zero
\* components (two empty vectors included) cosineSimilarity returns 0 and
\* raises no error.
C16_ZeroNormGivesZero ==
  (Compared /\ Len(fnIn.a) = Len(fnIn.b) /\ (AllZero(fnIn.a) \/ AllZero(fnIn.b))) =>
    fnOut = [ok |-> TRUE, value |-> FZero]

\* a zero second vector against a non-zero first one
C16_Witness ==
  /\ Compared /\ fnIn.a = <<1, -1>> /\ fnIn.b = <<0, 0>>
  /\ fnOut.ok /\ fnOut.value = FZero

\* two empty vectors
C16_WitnessEmpty ==
  Compared /\ fnIn.a = <<>> /\ fnIn.b = <<>> /\ fnOut.ok /\ fnOut.value = FZero

\* C17: for vectors a and b of equal length cosineSimilarity(a, b) equals
\* cosineSimilarity(b, a).
C17_Symmetric ==
  (Compared /\ Len(fnIn.a) = Len(fnIn.b)) =>
    fnOut = CosineSimilarity(fnIn.b, fnIn.a)

\* vectors of different norms with a non-zero similarity
C17_Witness ==
  /\ Compared /\ fnIn.a = <<1, 0>> /\ fnIn.b = <<-1, 1>>
  /\ fnOut.ok /\ fnOut.value.s = -1

FOne == FFromInt(1)

FNeg(x) == [x EXCEPT !.s = 0 - x.s]

\* 1 - 2^-52 and 1 + 2^-52
OneMinusEps == [s |-> 1, m |-> <<16382, 16383, 16383, 2047, 0, 0, 0, 0>>, e |-> -53]

OnePlusEps == [s |-> 1, m |-> NatSucc(NatPow2(52)), e |-> -52]

NearOne(x) == FCmp(x, OneMinusEps) >= 0 /\ FCmp(x, OnePlusEps) <= 0

SelfCompared == Compared /\ ~AllZero(fnIn.a) /\ fnIn.b = fnIn.a

NegationCompared == Compared /\ ~AllZero(fnIn.a) /\ fnIn.b = Negated(fnIn.a)

\* C18: for every non-zero vector v, cosineSimilarity(v, v) equals 1 and
\* cosineSimilarity(v, -v) equals -1.
C18_SelfSimilarityIsOne ==
  /\ SelfCompared => fnOut.ok /\ fnOut.value = FOne
  /\ NegationCompared => fnOut.ok /\ fnOut.value = FNeg(FOne)

\* C18 as it holds: cosineSimilarity(v, v) differs from 1 by at most 2^-52
\* and is 1 when v has a single non-zero component; cosineSimilarity(v, -v)
\* is the negative of cosineSimilarity(v, v).
C18_SelfSimilarityNearOne ==
  /\ SelfCompared =>
       /\ fnOut.ok /\ NearOne(fnOut.value)
       /\ Cardinality({k \in 1..Len(fnIn.a) : fnIn.a[k] # 0}) = 1 => fnOut.value = FOne
  /\ NegationCompared =>
       /\ fnOut.ok /\ NearOne(FNeg(fnOut.value))
       /\ FNeg(fnOut.value) = CosineSimilarity(fnIn.a, fnIn.a).value

\* the similarity of <<1, 1>> to itself is 1 - 2^-52
C18_Witness ==
  /\ SelfCompared /\ fnIn.a = <<1, 1>>
  /\ fnOut.value = OneMinusEps

\* the similarity of <<1, -1>> to its negative is -(1 - 2^-52)
C18_WitnessNegation ==
  /\ NegationCompared /\ fnIn.a = <<1, -1>>
  /\ fnOut.value = FNeg(OneMinusEps)

(***************************************************************************)
(* Properties of extractTextFromTipTapContent (SpecExtract).               *)
(***************************************************************************)
Extracted == fnPc = "done"

IsObject(value) == "type" \in DOMAIN value

Children(value) == IF IsObject(value) THEN value.content ELSE <<>>

\* the paths (sequences of child positions) of the values in a document
RECURSIVE Paths(_)
Paths(value) ==
  {<<>>} \cup UNION {{<<k>> \o p : p \in Paths(Children(value)[k])} :
                       k \in 1..Len(Children(value))}

RECURSIVE ValueAt(_, _)
ValueAt(value, p) ==
  IF p = <<>> THEN value ELSE ValueAt(Children(value)[Head(p)], Tail(p))

\* Every value of the document emits its literal text when it is entered
\* and, if it is a paragraph, heading or blockquote, one space when it is
\* finished.  An emission is keyed by the path of its value, the one at the
\* finish extended by a position after every child.
AfterChildren == MaxKids + 2

OwnText(value) ==
  IF "string" \in DOMAIN value THEN value.string
  ELSE IF IsObject(value) THEN value.text ELSE <<>>

Emissions(document) ==
  {[key |-> p, chars |-> OwnText(ValueAt(document, p))] : p \in Paths(document)}
  \cup
  {[key |-> p \o <<AfterChildren>>, chars |-> <<" ">>] :
     p \in {q \in Paths(document) :
              /\ IsObject(ValueAt(document, q))
              /\ ValueAt(document, q).type \in {"paragraph", "heading", "blockquote"}}}

\* depth-first document order of the keys: a value before its children, the
\* children from first to last
RECURSIVE Precedes(_, _)
Precedes(p, q) ==
  IF q = <<>> THEN FALSE
  ELSE IF p = <<>> THEN TRUE
  ELSE IF Head(p) # Head(q) THEN Head(p) < Head(q)
  ELSE Precedes(Tail(p), Tail(q))

RECURSIVE InOrder(_)
InOrder(emissions) ==
  IF emissions = {} THEN <<>>
  ELSE LET first == CHOOSE e \in emissions :
                      \A f \in emissions \ {e} : Precedes(e.key, f.key)
       IN first.chars \o InOrder(emissions \ {first})

\* C19: before the final trim the extracted string consists of the literal
\* text of every text-bearing node exactly once, in depth-first document
\* order with a node's own text before its children's, and of exactly one
\* space after each finished paragraph, heading or blockquote and after no
\* other node; the string returned is its trim.
C19_DocumentOrderOneSpacePerBlock ==
  (Extracted /\ fnIn # Nothing) =>
    /\ fnOut.untrimmed = InOrder(Emissions(fnIn))
    /\ fnOut.text = Trim(fnOut.untrimmed)

\* a block quote with a text of its own, a heading with two text nodes and
\* a text node after it
C19_Witness ==
  /\ Extracted
  /\ fnIn = Node("blockquote", <<"b">>,
                 <<Node("heading", <<>>, <<Node("text", <<" ", "b">>, <<>>),
                                           Node("text", <<"a">>, <<>>)>>),
                   Node("text", <<"a">>, <<>>)>>)
  /\ fnOut.untrimmed = <<"b", " ", "b", "a", " ", "a", " ">>

\* the document of two paragraphs "Hello" and "World" has been extracted
HelloWorldExtracted == Extracted /\ fnIn = HelloWorldDocument

\* C20: extracting the document of the two paragraphs "Hello" and "World"
\* yields "Hello  World": two spaces between the words, no whitespace at
\* the start or the end.
C20_HelloTwoSpacesWorld ==
  HelloWorldExtracted => fnOut.text = Hello \o <<" ", " ">> \o World

\* C20 as it holds: the result is "Hello World", with one space between the
\* words and no whitespace at the start or the end.
C20_HelloOneSpaceWorld ==
  HelloWorldExtracted => fnOut.text = Hello \o <<" ">> \o World

C20_Witness ==
  HelloWorldExtracted /\ Len(fnOut.text) = 11 /\ fnOut.untrimmed = fnOut.text \o <<" ">>

IsString(value) == "string" \in DOMAIN value

\* r is s without the spaces at its start and at its end
IsTrimOf(r, s) ==
  /\ r = <<>> \/ (r[1] # " " /\ r[Len(r)] # " ")
  /\ \E k \in 0..Len(s) : \E j \in 0..Len(s) :
       s = [h \in 1..k |-> " "] \o r \o [h \in 1..j |-> " "]

\* C21: for absent or null input the result is the empty string, and a
\* string input is returned verbatim, leading and trailing whitespace
\* included.
C21_StringVerbatim ==
  Extracted =>
    /\ fnIn = Nothing => fnOut.text = <<>>
    /\ IsString(fnIn) => fnOut.text = fnIn.string

\* C21 as it holds: for absent or null input the result is the empty
\* string, and for a string input it is the string without its leading and
\* trailing whitespace, unchanged in between.
C21_StringTrimmed ==
  Extracted =>
    /\ fnIn = Nothing => fnOut.text = <<>>
    /\ IsString(fnIn) => IsTrimOf(fnOut.text, fnIn.string)

\* a string with a space on either side has been extracted
C21_Witness ==
  /\ Extracted /\ IsString(fnIn) /\ fnIn.string = <<" ", "a", " ">>
  /\ fnOut.text = <<"a">>

\* null has been extracted
C21_WitnessNull ==
  Extracted /\ fnIn = Nothing /\ fnOut.text = <<>>

(***************************************************************************)
(* Order, commits and counts of the batch run (Spec).                      *)
(***************************************************************************)
\* the callbacks of t that have started
Started(t) == {k \in DOMAIN t : t[k] # "new"}

\* the number of notes in the chunks before the chunk of the k-th note
ChunkStartOf(k) == ((k - 1) \div 5) * 5

\* C24: chunks run one after the other: no callback of a later chunk has
\* started (none has a provider call out) unless every callback of every
\* earlier chunk has returned, and a callback of a later chunk starts only
\* in the step in which the timer between the chunks fires.
C24_ChunksSequential ==
  /\ [](\A k \in Scanned :
          task[k] # "new" => \A j \in 1..ChunkStartOf(k) : task[j] = "done")
  /\ [][\A k \in Started(task') \ Started(task) :
          k > 5 => /\ bPc = "Waiting"
                   /\ \A j \in 1..ChunkStartOf(k) : task[j] = "done"]_vars

\* the second chunk has a provider call out after a first chunk in which a
\* note failed at the provider and another was written
C24_Witness ==
  /\ bPc = "Processing" /\ i = 5
  /\ \E k \in Scanned : k > 5 /\ task[k] = "provider"
  /\ \E a, b \in 1..5 : ProviderFailed(a) /\ Persisted(b)

\* Idle, Scanning, Processing (a chunk is running or the run waits between
\* two chunks), and the end of the run
Phase(pc) ==
  CASE pc = "Idle" -> 0
    [] pc = "Scanning" -> 1
    [] pc \in {"Processing", "Waiting"} -> 2
    [] OTHER -> 3

\* C25 as stated: the run never moves backward, and once authenticated it
\* ends in no state but Completed, with its summary, also when the scan
\* fails.
C25_EndsCompleted ==
  /\ []((bResponse # Nothing /\ bResponse.status # 401) =>
          (bPc = "Completed" /\ bResponse.status = 200))
  /\ [][Phase(bPc') >= Phase(bPc)]_vars

\* C25 amended: the run goes Idle, Scanning, Processing, Completed and never
\* backward; it answers when it ends and not before; it ends Completed with
\* status 200 (at once when the scan finds no note, else after every
\* callback has returned), or it ends Failed: with status 401 from Idle when
\* the caller is not authenticated, with status 500 from Scanning when the
\* scan fails.  Completed and Failed are final.
C25_EndsCompletedOrFailed ==
  /\ [](bResponse # Nothing <=> bPc \in {"Completed", "Failed"})
  /\ [](bPc = "Completed" =>
          bResponse.status = 200 /\ \A k \in Scanned : task[k] = "done")
  /\ [](bPc = "Failed" => bResponse.status \in {401, 500} /\ notes = <<>>)
  /\ [][/\ Phase(bPc') >= Phase(bPc)
        /\ bPc \in {"Completed", "Failed"} => bPc' = bPc
        /\ bPc = "Idle" => bPc' \in {"Idle", "Scanning", "Failed"}
        /\ Phase(bPc') = 2 => Phase(bPc) \in {1, 2}
        /\ (bPc' = "Failed" /\ bPc = "Idle") => bResponse'.status = 401
        /\ (bPc' = "Failed" /\ bPc = "Scanning") => bResponse'.status = 500
        /\ (bPc' = "Failed" /\ bPc # "Failed") => bPc \in {"Idle", "Scanning"}]_vars

\* the scan has failed: the run has ended with status 500
C25_Witness == bPc = "Failed" /\ bResponse.status = 500

\* a run of two chunks has ended Completed
C25_WitnessCompleted == RunCompleted /\ Len(notes) > 5 /\ bResponse.processed > 0

\* C26: every write of an embedding is a commit of its own: a step changes
\* the table only by replacing the embedding of the one note whose update
\* succeeded in that step by the whole vector the provider gave; a note
\* that has an embedding keeps it in every later step; and a note whose
\* provider call or update failed has the embedding it had when scanned.
C26_CommittedIndependently ==
  /\ [][\A n \in DOMAIN store :
          /\ store[n].hasEmbedding => store'[n] = store[n]
          /\ store'[n] # store[n] =>
               \E k \in Scanned :
                 /\ notes[k].id = n /\ task[k] = "store" /\ storeOut'[k] = "ok"
                 /\ store'[n] = [store[n] EXCEPT !.hasEmbedding = TRUE,
                                                 !.embedding = provOut[k].embedding]]_vars
  /\ [](\A k \in Scanned :
          (ProviderFailed(k) \/ StoreFailed(k)) =>
             /\ ~store[notes[k].id].hasEmbedding
             /\ store[notes[k].id].embedding = notes[k].embedding)

\* a note was written, then the update of a later note failed and the
\* provider call of another failed; the run has ended and the first note
\* is still written
C26_Witness ==
  /\ RunCompleted
  /\ \E a, b, c \in Scanned :
       a < b /\ a < c /\ Persisted(a) /\ StoreFailed(b) /\ ProviderFailed(c)

\* the number of entries of details that name the k-th note
EntriesOf(k, details) ==
  BagCardinality([e \in {x \in BagToSet(details) : x[2] = notes[k].id} |->
                    CopiesIn(e, details)])

\* C27: when the run has ended, processed is the number of notes whose
\* update succeeded, errorDetails has errors entries, and every scanned
\* note was counted once: a written note in processed and in no entry of
\* errorDetails, any other note in one entry of errorDetails.
C27_CountsExact ==
  RunCompleted =>
    /\ bResponse.processed = Cardinality(StoredNotes)
    /\ BagCardinality(bResponse.errorDetails) = bResponse.errors
    /\ bResponse.processed + bResponse.errors = Len(notes)
    /\ \A k \in Scanned :
         EntriesOf(k, bResponse.errorDetails) = IF k \in StoredNotes THEN 0 ELSE 1

\* a run of two chunks has ended with a written note, a short note, a note
\* that failed at the provider and a note that failed at the store
C27_Witness ==
  /\ RunCompleted /\ Len(notes) > 5 /\ ShortNotes # {}
  /\ bResponse.processed > 0
  /\ \E a, b \in Scanned : ProviderFailed(a) /\ StoreFailed(b)

(***************************************************************************)
(* Batch runs invoked again (SpecRerun).                                   *)
(***************************************************************************)
EarlierWith(outcome) == {e[1] : e \in {x \in bEarlier : x[2] = outcome}}

\* C22 as stated: no note that an earlier run wrote or found too short is
\* scanned by a later run.
C22_EarlierNotesExcluded ==
  \A k \in Scanned :
    notes[k].id \notin EarlierWith("processed") \cup EarlierWith("short")

\* C22 amended: a note that an earlier run wrote keeps its embedding and is
\* not scanned by a later run; a note that an earlier run found too short
\* is scanned again and recorded again as an error, without a provider call
\* and without an update; and no step of a later run changes the row of
\* either.
C22_EarlierNotesNotRedone ==
  /\ [](\A n \in EarlierWith("processed") : store[n].hasEmbedding)
  /\ [](\A k \in Scanned :
          /\ notes[k].id \notin EarlierWith("processed")
          /\ notes[k].id \in EarlierWith("short") =>
               /\ task[k] \in {"new", "done"}
               /\ provOut[k] = Nothing /\ storeOut[k] = None
               /\ task[k] = "done" => EntriesOf(k, results.errorDetails) = 1)
  /\ [][\A n \in EarlierWith("processed") \cup EarlierWith("short") :
          store'[n] = store[n]]_vars

\* a later run has ended: it scanned again a note found too short before
\* and wrote a note that had failed before, after an earlier run had
\* written a note
C22_Witness ==
  /\ RunCompleted /\ EarlierWith("processed") # {}
  /\ \E k, j \in Scanned :
       /\ notes[k].id \in EarlierWith("short") /\ task[k] = "done"
       /\ notes[j].id \in EarlierWith("failed") /\ Persisted(j)

(***************************************************************************)
(* Ownership (SpecOwner).                                                  *)
(***************************************************************************)
\* the rows of list are rows of notes of user
OwnedBy(list, user) == \A k \in 1..Len(list) : store[list[k].id].userId = user

\* C23: whatever the user Me asks of the batch branch, of the single-note
\* branch and of the search route, no step changes a row of another user,
\* the batch run scans only notes of Me, the single-note branch goes on to
\* the provider and to the update only with a note of Me, and the search
\* reads and lists only notes of Me.
C23_OwnNotesOnly ==
  /\ [][\A n \in DOMAIN store : store[n].userId # Me => store'[n] = store[n]]_vars
  /\ [](OwnedBy(notes, Me) /\ OwnedBy(srNotes, Me))
  /\ []((srResponse # Nothing /\ "results" \in DOMAIN srResponse) =>
          OwnedBy(srResponse.results, Me))
  /\ []((embedNote # Nothing /\ embedNote.noteId # 0
           /\ (embedNote.pc \in {"calling", "updating"}
                 \/ (embedNote.pc = "responded"
                       /\ embedNote.response.status = 200))) =>
          /\ embedNote.noteId \in DOMAIN store
          /\ store[embedNote.noteId].userId = Me)

\* a search has listed two notes of Me, one of them written by the batch
\* run, and a single-note request for a note of the other user was refused
C23_Witness ==
  /\ srPc = "responded" /\ "results" \in DOMAIN srResponse
  /\ Len(srResponse.results) = 2
  /\ RunCompleted /\ Persisted(1)
  /\ embedNote # Nothing /\ embedNote.pc = "responded"
  /\ embedNote.noteId = 4 /\ store[4].userId = Other
  /\ embedNote.response.status = 404

\* a single-note request has written the embedding of a note of Me
C23_WitnessSaved ==
  /\ embedNote # Nothing /\ embedNote.pc = "responded" /\ embedNote.noteId = 1
  /\ embedNote.response.status = 200 /\ store[1].embedding = <<1, 0>>

(***************************************************************************)
(* The note update (SpecPut).                                              *)
(***************************************************************************)
\* generateEmbedding threw in the request under way
PutEmbeddingFailed == putNote # Nothing /\ putNote.result # Nothing /\ ~putNote.result.ok

\* C28: a failure of generateEmbedding does not fail the update: the
\* request goes on from the provider call to the update and does not
\* answer there; when the update succeeds after such a failure it writes
\* the title and the content of the body and leaves the embedding of the
\* row as it was; and the answer is then an error only if a call of the
\* store failed.
C28_EmbeddingFailureHarmless ==
  /\ [][(putNote # Nothing /\ putNote.pc = "calling" /\ putNote' # putNote) =>
          (putNote'.pc = "updating" /\ putNote'.response = Nothing)]_vars
  /\ [][(PutEmbeddingFailed /\ putNote.pc = "updating"
           /\ putNote'.pc \in {"tagging", "reading"}) =>
          /\ store'[putNote.id].content = putNote.body.content
          /\ putNote.body.hasTitle => store'[putNote.id].title = putNote.body.title
          /\ store'[putNote.id].embedding = store[putNote.id].embedding
          /\ store'[putNote.id].hasEmbedding = store[putNote.id].hasEmbedding]_vars
  /\ []((PutEmbeddingFailed /\ putNote.pc = "responded") =>
          IF putNote.db = "ok"
          THEN /\ putNote.response.status = 200
               /\ putNote.response.note.content = putNote.body.content
               /\ putNote.response.note.embedding = OwnerStore[putNote.id].embedding
          ELSE putNote.response.status = 500)

\* generateEmbedding threw for a note that had an embedding; the request
\* has answered 200 with the new title and content and the old embedding
C28_Witness ==
  /\ PutEmbeddingFailed /\ putNote.pc = "responded" /\ putNote.id = 2
  /\ putNote.response.status = 200
  /\ store[2].title = <<"t">> /\ store[2].content = Repeat("b", 10)
  /\ store[2].hasEmbedding /\ store[2].embedding = <<0, 1>>

(***************************************************************************)
(* The realtime service (SpecRealtime).                                    *)
(***************************************************************************)
\* C29: whatever calls of initialize, subscribeToNote, unsubscribeFromNote
\* and disconnect were made, at most one subscription to a note channel is
\* live, channel is null exactly when currentNoteId is null, the
\* collaborators map is empty while the service is not subscribed (so
\* after unsubscribeFromNote and after disconnect), and it never has the
\* userId of the service as a key.
C29_OneChannelNoSelf ==
  /\ Cardinality(rtSubs) <= 1
  /\ (rtChannel = Nothing) <=> (rtCurrentNoteId = None)
  /\ rtChannel = Nothing => rtCollaborators = {}
  /\ rtUserId \notin rtCollaborators

\* C30: at most one heartbeat timer is set at any time, and none while the
\* service is not subscribed.
C30_OneHeartbeat ==
  /\ Cardinality(rtTimers) <= 1
  /\ rtChannel = Nothing => rtTimers = {}

====
